---------------------------- MODULE Spec2Model ----------------------------
(***************************************************************************)
(* Model of the chat playground endpoint (src/api/playground.js): the      *)
(* request handler, the knowledge index builder, entity and intent         *)
(* detection, the history resolver, support-escalation detection and the   *)
(* grounded context assembler.                                             *)
(*                                                                         *)
(* Texts are TLA+ strings and every string function of the source          *)
(* (toLowerCase, trim, includes, split, replace, join) is computed         *)
(* character by character.  Strings are ASCII: the emoji of the canned     *)
(* texts are left out.  Messages are single-line, so "." of a regular      *)
(* expression matches every character of them.                             *)
(***************************************************************************)
EXTENDS Integers, Sequences, FiniteSets, TLC

VARIABLES
    pc,         \* position of the handler: the await it is suspended at
    req,        \* the parsed request: body, message, hasFile, messages, history
    kb,         \* the KB document the fetch returned
    idx,        \* the result of buildIndexes(kb)
    det,        \* rawIntent, rawDetectedProject, detectedComponent, ...
    calls,      \* the external calls issued so far, in order
    res,        \* the HTTP response sent (status NoStatus before)
    provider,   \* what the provider answered to the answer call
    fnIn,       \* input of a pure function under test
    fnOut,      \* its result
    lastKbDebug,\* the module-level variable of the KB loader (part_003:65)
    inflight,   \* the requests the handler of part_003 is serving
    img         \* the request the handler of generate-image.js is serving

vars == <<pc, req, kb, idx, det, calls, res, provider, fnIn, fnOut,
          lastKbDebug, inflight, img>>

(***************************************************************************)
(* Bounds of the model.                                                    *)
(***************************************************************************)
MaxHistory == 2
MaxLessons == 3

(***************************************************************************)
(* JavaScript values.                                                      *)
(***************************************************************************)
null == "<null>"

Truthy(x) == x # null /\ x # ""

OrElse(a, b) == IF Truthy(a) THEN a ELSE b

(***************************************************************************)
(* String primitives.                                                      *)
(***************************************************************************)
UpperAlpha == "ABCDEFGHIJKLMNOPQRSTUVWXYZ"

LowerAlpha == "abcdefghijklmnopqrstuvwxyz"

Digits == "0123456789"

CharAt(s, i) == SubSeq(s, i, i)

CharIn(c, alphabet) == \E i \in 1..Len(alphabet) : CharAt(alphabet, i) = c

UpperSet == {CharAt(UpperAlpha, i) : i \in 1..26}

LowerOf == [c \in UpperSet |->
               CharAt(LowerAlpha, CHOOSE i \in 1..26 : CharAt(UpperAlpha, i) = c)]

AlnumSet == {CharAt(LowerAlpha, i) : i \in 1..26} \cup {CharAt(Digits, i) : i \in 1..10}

LowerChar(c) == IF c \in UpperSet THEN LowerOf[c] ELSE c

IsWs(c) == c \in {" ", "\n", "\t"}

\* the character-wise functions split the string in halves, which keeps the
\* depth of the evaluation logarithmic in its length
RECURSIVE MapChars(_, _, _)
MapChars(s, lo, hi) ==
    IF lo > hi THEN ""
    ELSE IF lo = hi THEN LowerChar(CharAt(s, lo))
    ELSE MapChars(s, lo, (lo + hi) \div 2) \o MapChars(s, (lo + hi) \div 2 + 1, hi)

ToLowerCaseId(s) == s

ToLowerCase(s) == MapChars(s, 1, Len(s))

RECURSIVE TrimStart(_)
TrimStart(s) == IF Len(s) > 0 /\ IsWs(CharAt(s, 1)) THEN TrimStart(Tail(s)) ELSE s

RECURSIVE TrimEnd(_)
TrimEnd(s) ==
    IF Len(s) > 0 /\ IsWs(CharAt(s, Len(s)))
    THEN TrimEnd(SubSeq(s, 1, Len(s) - 1))
    ELSE s

TrimNone(s) == s

\* String.prototype.trim
Trim(s) == TrimEnd(TrimStart(s))

\* String.prototype.includes
Includes(t, p) ==
    \E i \in 1..(Len(t) - Len(p) + 1) : SubSeq(t, i, i + Len(p) - 1) = p

StartsWith(t, p) == Len(p) <= Len(t) /\ SubSeq(t, 1, Len(p)) = p

\* Array.prototype.includes
Member(x, seq) == \E i \in 1..Len(seq) : seq[i] = x

\* s.split(/\s+/)
RECURSIVE SplitWs(_, _, _)
SplitWs(s, i, cur) ==
    IF i > Len(s) THEN <<cur>>
    ELSE IF IsWs(CharAt(s, i))
         THEN IF i < Len(s) /\ IsWs(CharAt(s, i + 1))
              THEN SplitWs(s, i + 1, cur)
              ELSE <<cur>> \o SplitWs(s, i + 1, "")
         ELSE SplitWs(s, i + 1, cur \o CharAt(s, i))

Words(s) == SplitWs(s, 1, "")

\* s.replace(/[^a-z0-9]+/g, "")
RECURSIVE KeepAlnum(_, _, _)
KeepAlnum(s, lo, hi) ==
    IF lo > hi THEN ""
    ELSE IF lo = hi THEN (IF CharAt(s, lo) \in AlnumSet THEN CharAt(s, lo) ELSE "")
    ELSE KeepAlnum(s, lo, (lo + hi) \div 2) \o KeepAlnum(s, (lo + hi) \div 2 + 1, hi)

Simplify(s) == KeepAlnum(s, 1, Len(s))

\* Array.prototype.join
RECURSIVE Join(_, _)
Join(seq, sep) ==
    IF Len(seq) = 0 THEN ""
    ELSE IF Len(seq) = 1 THEN seq[1]
    ELSE seq[1] \o sep \o Join(Tail(seq), sep)

\* regex.test(t) for a pattern a1.*a2.*...an, each ai a set of literal
\* alternatives: some alternative of a1 occurs, after it one of a2, ...
RECURSIVE MatchChain(_, _)
MatchChain(t, chain) ==
    IF Len(chain) = 0 THEN TRUE
    ELSE \E a \in Head(chain) :
            \E i \in 1..(Len(t) - Len(a) + 1) :
                /\ SubSeq(t, i, i + Len(a) - 1) = a
                /\ MatchChain(SubSeq(t, i + Len(a), Len(t)), Tail(chain))

\* regex.test(t) for an alternation of literals
MatchAny(t, alts) == \E a \in alts : Includes(t, a)

(***************************************************************************)
(* extractProjectNames: the canonical list, whatever the KB holds.         *)
(***************************************************************************)
extractProjectNamesShort == << "Mood Lamp", "Candle Lamp" >>

extractProjectNames ==
    << "Hello World!", "Mood Lamp", "Game Controller", "Coin Counter",
       "Smart Box", "Musical Instrument", "Toll Booth", "Analog Meter",
       "DJ Nights", "Roll The Dice", "Table Fan", "Disco Lights",
       "Motion Activated Wave Sensor", "RGB Color Mixer", "The Fruit Game",
       "The Ping Pong Game", "The UFO Shooter Game", "The Extension Wire",
       "Light Intensity Meter", "Pulley LED", "Candle Lamp" >>

(***************************************************************************)
(* detectProject(text, projectNames)                                       *)
(***************************************************************************)
CountMatched(pWords, tWords) ==
    Cardinality({i \in 1..Len(pWords) : Member(pWords[i], tWords)})

ExactMatch(lower, pLower) == lower = pLower

WordScore == 3

AcceptThreshold == 3

\* lines 542-549: 3 for each word of the name the text has, 10 more for all
WordsScore(pWords, matched) ==
    IF matched > 0
    THEN matched * WordScore + (IF matched = Len(pWords) THEN 10 ELSE 0)
    ELSE 0

WordsMatchScore(pWords, tWords) == WordsScore(pWords, CountMatched(pWords, tWords))

SimpleScore(tSimple, pSimple) ==
    IF Includes(tSimple, pSimple) THEN Len(pSimple) ELSE 0

\* the score of one name; tWords and tSimple are lower.split(/\s+/) and the
\* simplified text, which the loop computes anew for every name
ProjectScore(lower, tWords, tSimple, pLower) ==
    (IF Includes(lower, pLower) THEN Len(pLower) * 2 ELSE 0)
    + WordsMatchScore(Words(pLower), tWords)
    + SimpleScore(tSimple, Simplify(pLower))

RECURSIVE DetectProjectLoop(_, _, _, _, _, _, _)
\* one turn of the loop, for the name names[i] with its lower-case form and score
DetectProjectStep(lower, tWords, tSimple, names, i, bestMatch, bestScore,
                  pLower, score) ==
    IF ExactMatch(lower, pLower) THEN names[i]
    ELSE IF score > bestScore
         THEN DetectProjectLoop(lower, tWords, tSimple, names, i + 1, names[i], score)
         ELSE DetectProjectLoop(lower, tWords, tSimple, names, i + 1,
                                bestMatch, bestScore)

DetectProjectName(lower, tWords, tSimple, names, i, bestMatch, bestScore, pLower) ==
    DetectProjectStep(lower, tWords, tSimple, names, i, bestMatch, bestScore,
                      pLower, ProjectScore(lower, tWords, tSimple, pLower))

DetectProjectLoop(lower, tWords, tSimple, names, i, bestMatch, bestScore) ==
    IF i > Len(names)
    THEN IF bestScore >= AcceptThreshold THEN bestMatch ELSE null
    ELSE DetectProjectName(lower, tWords, tSimple, names, i, bestMatch, bestScore,
                           ToLowerCase(names[i]))

DetectProjectIn(lower, projectNames) ==
    DetectProjectLoop(lower, Words(lower), Simplify(lower), projectNames, 1, null, 0)

detectProject(text, projectNames) ==
    DetectProjectIn(Trim(ToLowerCase(text)), projectNames)

(***************************************************************************)
(* detectSupportFailure({userText, detectedProject, projectContext,        *)
(* detectedComponent})                                                     *)
(***************************************************************************)
SupportWords ==
    {"contact", "customer support", "support team", "call", "email", "phone",
     "helpline"}

MissingWords ==
    {"missing", "not in kit", "not included", "lost", "component missing",
     "nahi mila", "gayab"}

DamageWords ==
    {"broken", "damaged", "burnt", "burned", "melted", "smoke", "dead",
     "faulty", "cracked", "not powering"}

HardwareWords ==
    {"sensor", "motor", "board", "wire", "led", "wheel", "fan", "blade",
     "battery", "switch", "sheet"}

detectSupportFailureHardwareFirst(userText, detectedProject, projectContext, detectedComponent) ==
    LET lower == ToLowerCase(userText)
    IN  IF MatchAny(lower, SupportWords) THEN "USER_REQUESTED_SUPPORT"
        ELSE IF MatchAny(lower, MissingWords) THEN "PART_MISSING"
        ELSE IF MatchAny(lower, HardwareWords)
                /\ ~Truthy(detectedComponent) /\ ~Truthy(detectedProject)
             THEN "UNKNOWN_COMPONENT"
        ELSE IF MatchAny(lower, DamageWords) THEN "HARDWARE_DAMAGED"
        ELSE IF Truthy(detectedProject) /\ ~Truthy(projectContext)
             THEN "PROJECT_NOT_IN_KB"
        ELSE null

detectSupportFailureDamageFirst(userText, detectedProject, projectContext, detectedComponent) ==
    LET lower == ToLowerCase(userText)
    IN  IF MatchAny(lower, SupportWords) THEN "USER_REQUESTED_SUPPORT"
        ELSE IF MatchAny(lower, DamageWords) THEN "HARDWARE_DAMAGED"
        ELSE IF MatchAny(lower, MissingWords) THEN "PART_MISSING"
        ELSE IF MatchAny(lower, HardwareWords)
                /\ ~Truthy(detectedComponent) /\ ~Truthy(detectedProject)
             THEN "UNKNOWN_COMPONENT"
        ELSE IF Truthy(detectedProject) /\ ~Truthy(projectContext)
             THEN "PROJECT_NOT_IN_KB"
        ELSE null

detectSupportFailure(userText, detectedProject, projectContext, detectedComponent) ==
    LET lower == ToLowerCase(userText)
    IN  IF MatchAny(lower, SupportWords) THEN "USER_REQUESTED_SUPPORT"
        ELSE IF MatchAny(lower, MissingWords) THEN "PART_MISSING"
        ELSE IF MatchAny(lower, DamageWords) THEN "HARDWARE_DAMAGED"
        ELSE IF MatchAny(lower, HardwareWords)
                /\ ~Truthy(detectedComponent) /\ ~Truthy(detectedProject)
             THEN "UNKNOWN_COMPONENT"
        ELSE IF Truthy(detectedProject) /\ ~Truthy(projectContext)
             THEN "PROJECT_NOT_IN_KB"
        ELSE null

(***************************************************************************)
(* getComponentVariations(name) and detectComponent(text, componentsMap).  *)
(* componentsMap is the list of the map's entries in insertion order, each *)
(* [id, name]; a missing name is "".                                       *)
(***************************************************************************)
getComponentVariations(name) ==
    <<name>>
    \o (IF Includes(name, "robocoders brain")
        THEN <<"brain", "main board", "robocoders">> ELSE <<>>)
    \o (IF Includes(name, "ir sensor")
        THEN <<"infrared", "ir", "proximity sensor">> ELSE <<>>)
    \o (IF Includes(name, "ldr")
        THEN <<"light sensor", "light dependent resistor">> ELSE <<>>)
    \o (IF Includes(name, "potentiometer")
        THEN <<"knob", "pot", "dial">> ELSE <<>>)
    \o (IF Includes(name, "servo motor") THEN <<"servo">> ELSE <<>>)
    \o (IF Includes(name, "dc motor") THEN <<"motor">> ELSE <<>>)
    \o (IF Includes(name, "rgb led") THEN <<"rgb", "color led">> ELSE <<>>)
    \o (IF Includes(name, "keys pcb")
        THEN <<"keys", "buttons", "button panel">> ELSE <<>>)

RECURSIVE SumLens(_, _, _)
SumLens(lower, variations, i) ==
    IF i > Len(variations) THEN 0
    ELSE (IF Includes(lower, variations[i]) THEN Len(variations[i]) ELSE 0)
         + SumLens(lower, variations, i + 1)

ComponentThreshold == 2

ComponentScore(lower, componentName) ==
    (IF Includes(lower, componentName) THEN Len(componentName) * 2 ELSE 0)
    + SumLens(lower, getComponentVariations(componentName), 1)

RECURSIVE DetectComponentLoop(_, _, _, _, _)
DetectComponentLoop(lower, cmap, i, bestMatch, bestScore) ==
    IF i > Len(cmap)
    THEN IF bestScore >= ComponentThreshold THEN bestMatch ELSE null
    ELSE LET componentName == ToLowerCase(cmap[i].name)
             score == ComponentScore(lower, componentName)
         IN  IF componentName = ""
             THEN DetectComponentLoop(lower, cmap, i + 1, bestMatch, bestScore)
             ELSE IF lower = componentName THEN cmap[i].id
             ELSE IF score > bestScore
                  THEN DetectComponentLoop(lower, cmap, i + 1, cmap[i].id, score)
                  ELSE DetectComponentLoop(lower, cmap, i + 1, bestMatch, bestScore)

detectComponent(text, componentsMap) ==
    DetectComponentLoop(Trim(ToLowerCase(text)), componentsMap, 1, null, 0)

(***************************************************************************)
(* detectIntent(text, projectNames, componentsMap).  In the kit-overview   *)
(* condition && binds tighter than ||: the project-name test guards only   *)
(* the last alternative.                                                   *)
(***************************************************************************)
MentionsProject(lower, projectNames) ==
    \E i \in 1..Len(projectNames) : Includes(lower, ToLowerCase(projectNames[i]))

MentionsComponent(lower, componentsMap) ==
    \E i \in 1..Len(componentsMap) :
        /\ componentsMap[i].name # ""
        /\ Includes(lower, ToLowerCase(componentsMap[i].name))

IsKitOverview(lower, projectNames) ==
    \/ MatchChain(lower, <<{"what"}, {"is", "in", "about", "contain"}, {"kit"}>>)
    \/ MatchChain(lower, <<{"tell me about"}, {"kit"}>>)
    \/ MatchChain(lower, <<{"kit"}, {"overview"}>>)
    \/ /\ MatchChain(lower, <<{"what"}, {"robocoders"}>>)
       /\ ~Includes(lower, "brain")
       /\ ~MentionsProject(lower, projectNames)

IsComponentsList(lower) ==
    \/ MatchChain(lower, <<{"what"}, {"component", "part", "piece"}, {"kit"}>>)
    \/ MatchChain(lower, <<{"list"}, {"component"}>>)
    \/ MatchChain(lower, <<{"show"}, {"component"}>>)
    \/ MatchChain(lower, <<{"component"}, {"list"}>>)

IsAskingAboutComponent(lower, componentsMap) ==
    /\ MentionsComponent(lower, componentsMap)
    /\ \/ MatchChain(lower, <<{"what"}, {"is", "does"}>>)
       \/ Includes(lower, "tell me about")
       \/ MatchChain(lower, <<{"how"}, {"work", "use"}>>)
       \/ Includes(lower, "explain")

IsListProjects(lower) ==
    \/ MatchChain(lower, <<{"list", "show", "what are", "tell me"},
                           {"project", "module"}>>)
    \/ Includes(lower, "how many project")
    \/ Includes(lower, "all project")

IsProjectVideos(lower) ==
    \/ MatchChain(lower, <<{"video", "lesson", "tutorial", "how to build",
                            "how to make", "how to create"},
                           {"project", "module"}>>)
    \/ MatchChain(lower, <<{"show"}, {"video"}>>)
    \/ MatchChain(lower, <<{"project", "module"}, {"video", "lesson"}>>)

detectIntentComponentFirst(text, projectNames, componentsMap) ==
    LET lower == Trim(ToLowerCase(text))
    IN  IF IsKitOverview(lower, projectNames) THEN "KIT_OVERVIEW"
        ELSE IF IsComponentsList(lower) THEN "COMPONENTS_LIST"
        ELSE IF IsAskingAboutComponent(lower, componentsMap) THEN "COMPONENT_INFO"
        ELSE IF IsListProjects(lower) THEN "LIST_PROJECTS"
        ELSE IF IsProjectVideos(lower) THEN "PROJECT_VIDEOS"
        ELSE "GENERAL"

detectIntent(text, projectNames, componentsMap) ==
    LET lower == Trim(ToLowerCase(text))
    IN  IF IsKitOverview(lower, projectNames) THEN "KIT_OVERVIEW"
        ELSE IF IsComponentsList(lower) THEN "COMPONENTS_LIST"
        ELSE IF IsAskingAboutComponent(lower, componentsMap)
                /\ ~MentionsProject(lower, projectNames)
             THEN "COMPONENT_INFO"
        ELSE IF IsListProjects(lower) THEN "LIST_PROJECTS"
        ELSE IF IsProjectVideos(lower) THEN "PROJECT_VIDEOS"
        ELSE "GENERAL"

(***************************************************************************)
(* Utility functions.                                                      *)
(***************************************************************************)
lessonRank(lessonName) ==
    LET n == ToLowerCase(lessonName)
    IN  IF Includes(n, "connection") THEN 1
        ELSE IF Includes(n, "build") THEN 2
        ELSE IF Includes(n, "coding") THEN 3
        ELSE IF Includes(n, "working") THEN 4
        ELSE IF Includes(n, "intro") THEN 5
        ELSE 99

RECURSIVE SkipWhile(_, _, _)
SkipWhile(s, i, alphabet) ==
    IF i <= Len(s) /\ CharIn(CharAt(s, i), alphabet)
    THEN SkipWhile(s, i + 1, alphabet) ELSE i

\* .replace(/[ \t]+\n/g, "\n"): a blank goes when its run of blanks ends in
\* a newline
BlankBeforeNewline(s, i) ==
    /\ CharAt(s, i) \in {" ", "\t"}
    /\ LET e == SkipWhile(s, i, " \t") IN e <= Len(s) /\ CharAt(s, e) = "\n"

RECURSIVE DropBlanksBeforeNewline(_, _, _)
DropBlanksBeforeNewline(s, lo, hi) ==
    IF lo > hi THEN ""
    ELSE IF lo = hi THEN (IF BlankBeforeNewline(s, lo) THEN "" ELSE CharAt(s, lo))
    ELSE DropBlanksBeforeNewline(s, lo, (lo + hi) \div 2)
         \o DropBlanksBeforeNewline(s, (lo + hi) \div 2 + 1, hi)

\* .replace(/\n{3,}/g, "\n\n"): of a run of newlines the first two stay
ThirdNewline(s, i) ==
    i > 2 /\ CharAt(s, i) = "\n" /\ CharAt(s, i - 1) = "\n" /\ CharAt(s, i - 2) = "\n"

RECURSIVE CollapseNewlines(_, _, _)
CollapseNewlines(s, lo, hi) ==
    IF lo > hi THEN ""
    ELSE IF lo = hi THEN (IF ThirdNewline(s, lo) THEN "" ELSE CharAt(s, lo))
    ELSE CollapseNewlines(s, lo, (lo + hi) \div 2)
         \o CollapseNewlines(s, (lo + hi) \div 2 + 1, hi)

\* the strings of the model hold no NUL character
sanitizeChunk(s) ==
    LET a == DropBlanksBeforeNewline(s, 1, Len(s))
    IN  Trim(CollapseNewlines(a, 1, Len(a)))

RECURSIVE UniqLoop(_, _, _)
UniqLoop(arr, i, out) ==
    IF i > Len(arr) THEN out
    ELSE LET k == Trim(arr[i])
         IN  IF k = "" \/ Member(k, out) THEN UniqLoop(arr, i + 1, out)
             ELSE UniqLoop(arr, i + 1, Append(out, k))

uniq(arr) == UniqLoop(arr, 1, <<>>)

LessonKey(l) == ToLowerCase(l.lessonName) \o "::" \o Join(l.videoLinks, ",")

RECURSIVE DedupeLoop(_, _, _, _)
DedupeLoop(lessons, i, seen, out) ==
    IF i > Len(lessons) THEN out
    ELSE LET key == LessonKey(lessons[i])
         IN  IF key \in seen THEN DedupeLoop(lessons, i + 1, seen, out)
             ELSE DedupeLoop(lessons, i + 1, seen \cup {key}, Append(out, lessons[i]))

dedupeLessons(lessons) == DedupeLoop(lessons, 1, {}, <<>>)

\* Array.prototype.sort with the comparator lessonRank(a) - lessonRank(b):
\* the sort is stable (ECMAScript 2019), so it is an insertion after the last
\* element that does not rank higher.
RECURSIVE InsertByRank(_, _)
InsertByRank(sorted, l) ==
    IF Len(sorted) = 0 THEN <<l>>
    ELSE IF lessonRank(sorted[Len(sorted)].lessonName) <= lessonRank(l.lessonName)
         THEN Append(sorted, l)
         ELSE Append(InsertByRank(SubSeq(sorted, 1, Len(sorted) - 1), l),
                     sorted[Len(sorted)])

RECURSIVE SortLoop(_, _, _)
SortLoop(lessons, i, sorted) ==
    IF i > Len(lessons) THEN sorted
    ELSE SortLoop(lessons, i + 1, InsertByRank(sorted, lessons[i]))

SortByRankUnsorted(lessons) == lessons

SortByRank(lessons) == SortLoop(lessons, 1, <<>>)

(***************************************************************************)
(* extractProjectBlock(kb, projectName): a typed project page first, then  *)
(* the free-text page scan, then the structured project record.            *)
(***************************************************************************)
MinOf(S) == IF S = {} THEN 0 ELSE CHOOSE i \in S : \A j \in S : i <= j

\* Array.prototype.findIndex, counted from 1; 0 when nothing is found
FirstIndex(seq, i, Test(_)) == MinOf({j \in i..Len(seq) : Test(seq[j])})

FilterSeq(seq, i, Test(_)) == SelectSeq(seq, Test)

Slice(seq, from, to) ==
    SubSeq(seq, from, IF to > Len(seq) THEN Len(seq) ELSE to)

PageTexts(pages) == [i \in 1..Len(pages) |-> pages[i].text]

StructuredBlock(p) ==
    LET parts ==
            (IF p.description # "" THEN <<p.description>> ELSE <<>>)
         \o (IF "componentsUsed" \in p.has
             THEN <<"Components Used:\n" \o Join(p.componentsUsed, "\n")>>
             ELSE <<>>)
         \o (IF "connections" \in p.has
             THEN <<"Connections:\n" \o Join(p.connections, "\n")>>
             ELSE <<>>)
         \o (IF "steps" \in p.has
             THEN <<"Build Steps:\n" \o Join(p.steps, "\n")>>
             ELSE <<>>)
    IN  sanitizeChunk(Join(parts, "\n\n"))

RecordIndex(k, projectName) ==
    MinOf({i \in 1..Len(k.projects) : k.projects[i].name = projectName})

extractProjectBlockRecordOnly(k, projectName) ==
    IF RecordIndex(k, projectName) > 0
    THEN StructuredBlock(k.projects[RecordIndex(k, projectName)])
    ELSE ""

extractProjectBlock(k, projectName) ==
    LET pNorm == ToLowerCase(projectName)
        IsTyped(page) ==
            page.type = "project" /\ ToLowerCase(page.projectName) = pNorm
        typed == FirstIndex(k.pages, 1, IsTyped)
        NonEmpty(t) == t # ""
        texts == FilterSeq(PageTexts(k.pages), 1, NonEmpty)
        IsStart(t) ==
            LET txt == ToLowerCase(t)
            IN  Includes(txt, "project name") /\ Includes(txt, pNorm)
        start == FirstIndex(texts, 1, IsStart)
        IsNamed(x) == x.name = projectName
        p == FirstIndex(k.projects, 1, IsNamed)
    IN  IF k.hasPages /\ typed > 0 THEN sanitizeChunk(k.pages[typed].text)
        ELSE IF k.hasPages /\ start > 0
             THEN sanitizeChunk(Join(Slice(texts, start, start + 5), "\n\n"))
        ELSE IF p > 0 THEN StructuredBlock(k.projects[p])
        ELSE ""

(***************************************************************************)
(* extractLessons(kb, projectName).  A structured lesson record is         *)
(* [project, lesson_name, isArray, urls]: video_url is the array urls, or  *)
(* the scalar urls[1], or absent (urls empty).                             *)
(***************************************************************************)
TrimAll(arr) == [i \in 1..Len(arr) |-> Trim(arr[i])]

\* lines 1018-1020: an array of links is trimmed and de-duplicated, any
\* other value is one link, trimmed, be it empty
RecordLinks(l) ==
    IF l.isArray THEN uniq(TrimAll(l.urls))
    ELSE <<Trim(IF Len(l.urls) > 0 THEN l.urls[1] ELSE "")>>

RecordEntries(l) ==
    LET links == RecordLinks(l)
    IN  [i \in 1..Len(links) |->
            [lessonName  |-> IF Len(links) > 1
                             THEN l.lesson_name \o " - Part " \o ToString(i)
                             ELSE l.lesson_name,
             videoLinks  |-> <<links[i]>>,
             explainLine |-> ""]]

RECURSIVE StructuredLessons(_, _, _)
StructuredLessons(lessons, i, projectName) ==
    IF i > Len(lessons) THEN <<>>
    ELSE (IF lessons[i].project # projectName THEN <<>>
          ELSE RecordEntries(lessons[i]))
         \o StructuredLessons(lessons, i + 1, projectName)

\* ---- the free-text fallback ----
Whitespace == " \n\t"

LitAt(low, i, lit) ==
    i >= 1 /\ i + Len(lit) - 1 <= Len(low) /\ SubSeq(low, i, i + Len(lit) - 1) = lit

NextNewline(low, i) == MinOf({k \in i..Len(low) : CharAt(low, k) = "\n"})

\* \d+ from j closes a marker that began at i
DigitsFrom(low, i, j) ==
    LET k == SkipWhile(low, j, Digits)
    IN  IF k > j THEN k - i ELSE 0

\* [:\-] at j closes "Lesson ID" that began at i
LessonIdLen(low, i, j) ==
    IF j <= Len(low) /\ CharIn(CharAt(low, j), ":-") THEN j + 1 - i ELSE 0

\* Part\s*\d+ at j closes "Coding" that began at i
CodingPartLen(low, i, j) ==
    IF LitAt(low, j, "part")
    THEN DigitsFrom(low, i, SkipWhile(low, j + 4, Whitespace)) ELSE 0

\* length of a match of (Lesson ID\s*[:\-]|Build\s*\d+|Coding\s*Part\s*\d+)
\* at position i of the lower-cased text, 0 when there is none
MarkerLenAt(low, i) ==
    IF LitAt(low, i, "lesson id")
    THEN LessonIdLen(low, i, SkipWhile(low, i + 9, Whitespace))
    ELSE IF LitAt(low, i, "build")
    THEN DigitsFrom(low, i, SkipWhile(low, i + 5, Whitespace))
    ELSE IF LitAt(low, i, "coding")
    THEN CodingPartLen(low, i, SkipWhile(low, i + 6, Whitespace))
    ELSE 0

NextMarker(low, i) == MinOf({k \in i..Len(low) : MarkerLenAt(low, k) > 0})

\* txt.split(marker): the pieces and, the group capturing, the markers
RECURSIVE SplitMarkers(_, _, _, _)
SplitAtMarker(txt, low, from, at, n) ==
    IF at = 0 THEN <<SubSeq(txt, from, Len(txt))>>
    ELSE <<SubSeq(txt, from, at - 1), SubSeq(txt, at, at + n - 1)>>
         \o SplitMarkers(txt, low, at + n, at + n)

SplitFrom(txt, low, from, at) ==
    SplitAtMarker(txt, low, from, at, MarkerLenAt(low, at))

SplitMarkers(txt, low, i, from) == SplitFrom(txt, low, from, NextMarker(low, i))

\* the group ([^\n]+) after the colon at c and the blanks up to g; e is the
\* next line end; <<first, last>>, or <<0, 0>> when there is no match
LessonNameGroup(low, c, g, e) ==
    IF c = 0 THEN <<0, 0>>
    ELSE IF g <= Len(low) THEN <<g, IF e = 0 THEN Len(low) ELSE e - 1>>
    \* the group needs a character: \s* gives back a blank, if any
    ELSE IF g - 1 > c /\ CharAt(low, g - 1) # "\n" THEN <<g - 1, g - 1>>
    ELSE <<0, 0>>

LessonNameAfter(low, c, g) == LessonNameGroup(low, c, g, NextNewline(low, g))

LessonNameFromColon(low, c) ==
    LessonNameAfter(low, c, SkipWhile(low, c + 1, Whitespace))

\* the colon: after the optional (Canonical) at j2, else right at j
LessonNameColon(low, j, j2) ==
    IF j2 <= Len(low) /\ CharAt(low, j2) = ":" THEN j2
    ELSE IF j <= Len(low) /\ CharAt(low, j) = ":" THEN j
    ELSE 0

LessonNameFrom(low, j) ==
    LessonNameFromColon(low,
        LessonNameColon(low, j,
            IF LitAt(low, j, "(canonical)")
            THEN SkipWhile(low, j + 11, Whitespace) ELSE j))

\* the match of Lesson Name\s*(?:\(Canonical\))?\s*:\s*([^\n]+) that starts
\* at i, as <<first, last>> of the captured group; <<0, 0>> if none
LessonNameAt(low, i) ==
    IF ~LitAt(low, i, "lesson name") THEN <<0, 0>>
    ELSE LessonNameFrom(low, SkipWhile(low, i + 11, Whitespace))

GroupText(block, r) ==
    IF r[1] = 0 THEN "" ELSE Trim(SubSeq(block, r[1], r[2]))

MarkerTextAt(block, low, i) ==
    IF i = 0 THEN "" ELSE Trim(SubSeq(block, i, i + MarkerLenAt(low, i) - 1))

MarkerText(block, low, lit) ==
    MarkerTextAt(block, low,
        MinOf({k \in 1..Len(low) : LitAt(low, k, lit) /\ MarkerLenAt(low, k) > 0}))

\* a || b || c on strings
FirstNonEmpty(a, b, c) == IF a # "" THEN a ELSE IF b # "" THEN b ELSE c

BlockLessonName(block, low) ==
    FirstNonEmpty(
        GroupText(block, LessonNameAt(low,
            MinOf({k \in 1..Len(low) : LessonNameAt(low, k)[1] > 0}))),
        MarkerText(block, low, "build"),
        MarkerText(block, low, "coding"))

LinkStop == " \n\t])}"

RECURSIVE SkipUntil(_, _, _)
SkipUntil(s, i, stops) ==
    IF i <= Len(s) /\ ~CharIn(CharAt(s, i), stops)
    THEN SkipUntil(s, i + 1, stops) ELSE i

LinkHeadAt(low, i) ==
    IF LitAt(low, i, "http://") THEN 7
    ELSE IF LitAt(low, i, "https://") THEN 8 ELSE 0

LinkEndAt(low, i) == SkipUntil(low, i + LinkHeadAt(low, i), LinkStop)

NextLink(low, i) ==
    MinOf({k \in i..Len(low) :
              LinkHeadAt(low, k) > 0 /\ LinkEndAt(low, k) > k + LinkHeadAt(low, k)})

\* block.match(/https?:\/\/[^\s\]\)\}\n]+/gi)
RECURSIVE BlockLinks(_, _, _)
LinksFrom(block, low, at, end) ==
    IF at = 0 THEN <<>>
    ELSE <<SubSeq(block, at, end - 1)>> \o BlockLinks(block, low, end)

LinksAt(block, low, at) == LinksFrom(block, low, at, LinkEndAt(low, at))

BlockLinks(block, low, i) == LinksAt(block, low, NextLink(low, i))

\* the group ([\s\S]*?) from g up to "When the AI" or the end
ExplainGroup(low, c, g) ==
    LET w == MinOf({k \in g..Len(low) : LitAt(low, k, "when the ai")})
    IN  IF c = 0 THEN <<0, 0>>
        ELSE <<g, IF w = 0 THEN Len(low) ELSE w - 1>>

ExplainFromColon(low, c) == ExplainGroup(low, c, SkipWhile(low, c + 1, Whitespace))

\* .*?: the first colon before the line ends at nl
ExplainColon(low, i, nl) ==
    MinOf({k \in (i + 27)..Len(low) : CharAt(low, k) = ":" /\ (nl = 0 \/ k < nl)})

\* What this lesson helps with.*?:\s*([\s\S]*?)(?:When the AI|$)
ExplainAt(low, i) ==
    IF ~LitAt(low, i, "what this lesson helps with") THEN <<0, 0>>
    ELSE ExplainFromColon(low, ExplainColon(low, i, NextNewline(low, i + 27)))

\* s.replace(/\n+/g, " ").replace(/\s+/g, " ").trim(): of a run of
\* whitespace one blank stays
RECURSIVE CollapseWs(_, _, _)
CollapseWs(s, lo, hi) ==
    IF lo > hi THEN ""
    ELSE IF lo = hi
    THEN (IF ~IsWs(CharAt(s, lo)) THEN CharAt(s, lo)
          ELSE IF lo > 1 /\ IsWs(CharAt(s, lo - 1)) THEN "" ELSE " ")
    ELSE CollapseWs(s, lo, (lo + hi) \div 2) \o CollapseWs(s, (lo + hi) \div 2 + 1, hi)

cleanExplain(s) == Trim(CollapseWs(s, 1, Len(s)))

BlockExplain(block, low) ==
    cleanExplain(GroupText(block, ExplainAt(low,
        MinOf({k \in 1..Len(low) : ExplainAt(low, k)[1] > 0}))))

\* lines 1058-1090: one block after a marker; kept when it has a name and
\* at least one link
LessonOf(block, low, lessonName, links) ==
    IF lessonName # "" /\ Len(links) > 0
    THEN <<[lessonName  |-> Trim(lessonName),
            videoLinks  |-> uniq(links),
            explainLine |-> BlockExplain(block, low)]>>
    ELSE <<>>

BlockLessonLow(block, low) ==
    LessonOf(block, low, BlockLessonName(block, low), BlockLinks(block, low, 1))

BlockLesson(block) == BlockLessonLow(block, ToLowerCase(block))

RECURSIVE BlocksLessons(_, _)
BlocksLessons(blocks, b) ==
    IF b > Len(blocks) THEN <<>>
    ELSE BlockLesson(blocks[b]) \o BlocksLessons(blocks, b + 1)

\* whether the page belongs to project p: a page that names a project
\* switches, any other page continues
StillInProject(low, p, inProject) ==
    IF \/ Includes(low, "project:")
       \/ Includes(low, "project :")
       \/ Includes(low, "project name")
    THEN Includes(low, p) ELSE inProject

RECURSIVE PagesLessons(_, _, _, _)
PageLessons(texts, i, p, txt, low, now) ==
    (IF now THEN BlocksLessons(SplitMarkers(txt, low, 1, 1), 2) ELSE <<>>)
    \o PagesLessons(texts, i + 1, p, now)

PageLow(texts, i, p, inProject, low) ==
    PageLessons(texts, i, p, texts[i], low, StillInProject(low, p, inProject))

PagesLessons(texts, i, p, inProject) ==
    IF i > Len(texts) THEN <<>>
    ELSE PageLow(texts, i, p, inProject, ToLowerCase(texts[i]))

extractLessons(k, projectName) ==
    IF Len(k.lessons) > 0
    THEN dedupeLessons(StructuredLessons(k.lessons, 1, projectName))
    ELSE IF k.hasPages
    THEN dedupeLessons(PagesLessons(PageTexts(k.pages), 1,
                                    ToLowerCase(projectName), FALSE))
    ELSE <<>>

(***************************************************************************)
(* The other extraction functions.                                         *)
(***************************************************************************)
PagesFrom(k, phrase, count) ==
    LET texts == PageTexts(k.pages)
        Has(t) == Includes(ToLowerCase(t), phrase)
        at == FirstIndex(texts, 1, Has)
    IN  IF k.hasPages /\ at > 0
        THEN sanitizeChunk(Join(Slice(texts, at, at + count - 1), "\n\n"))
        ELSE ""

extractCanonicalPins(k) == PagesFrom(k, "fixed port mappings", 3)

extractSafety(k) == PagesFrom(k, "global safety", 2)

DefaultKitOverview ==
    "The Robocoders Kit is an educational electronics and coding kit for children aged 8-14. It includes 21 exciting projects and 92 components to learn physical computing, Visual Block Coding, and creative project building."

Dashed(items) == [i \in 1..Len(items) |-> "- " \o items[i]]

extractKitOverview(k) ==
    LET o == k.overview
        parts ==
            (IF o.kitName # "" THEN <<"Kit: " \o o.kitName>> ELSE <<>>)
         \o (IF o.description # "" THEN <<o.description>> ELSE <<>>)
         \o (IF o.whatIsInside # ""
             THEN <<"\nWhat's Inside:\n" \o o.whatIsInside>> ELSE <<>>)
         \o (IF o.hasKeyFeatures
             THEN <<"\nKey Features:\n" \o Join(Dashed(o.keyFeatures), "\n")>>
             ELSE <<>>)
         \o (IF o.totalProjects # ""
             THEN <<"\nTotal Projects: " \o o.totalProjects>> ELSE <<>>)
         \o (IF o.totalComponents # ""
             THEN <<"Total Components: " \o o.totalComponents>> ELSE <<>>)
         \o (IF o.ageRange # "" THEN <<"Age Range: " \o o.ageRange>> ELSE <<>>)
    IN  IF o.present THEN Join(parts, "\n") ELSE DefaultKitOverview

\* the summary is [totalCount, categories]: the count as it prints, and the
\* categories object as the list of its entries (absent: none)
extractComponentsSummary(k) ==
    IF k.componentsSummary.present
    THEN [totalCount |-> k.componentsSummary.totalCount,
          categories |-> k.componentsSummary.categories]
    ELSE IF k.hasGlossary
    THEN [totalCount |-> ToString(Len(k.glossary)), categories |-> <<>>]
    ELSE [totalCount |-> "92", categories |-> <<>>]

extractProjectsSummary(k) ==
    [totalCount |-> ToString(Len(extractProjectNames)),
     projectList |-> extractProjectNames]

NoSupport ==
    [enabled |-> FALSE, show_when |-> <<>>, message |-> "", email |-> "",
     phone |-> "", hours |-> ""]

\* null is NoSupport: the caller reads supportConfig?.enabled first
extractSupportConfig(k) == IF k.support.enabled THEN k.support ELSE NoSupport

ComponentPages(pages) ==
    LET IsComponent(page) ==
            page.type = "component" /\ page.componentId # ""
            /\ page.componentName # ""
        found == SelectSeq(pages, IsComponent)
    IN  [i \in 1..Len(found) |->
            [id |-> found[i].componentId, name |-> found[i].componentName]]

\* two pages with one componentId are one entry of the map; the pages of the
\* model carry distinct ids
extractComponentsMap(k) ==
    IF k.hasGlossary THEN k.glossary
    ELSE IF k.hasPages THEN ComponentPages(k.pages)
    ELSE <<>>

(***************************************************************************)
(* buildIndexes(kb)                                                        *)
(***************************************************************************)
\* a null entry of kb.lessons
NullLesson == [isNull |-> TRUE]

IsNullEntry(l) == "isNull" \in DOMAIN l

\* line 1016: l.project of a null entry raises
extractLessonsRaises(k) ==
    /\ Len(k.lessons) > 0
    /\ \E i \in 1..Len(k.lessons) : IsNullEntry(k.lessons[i])

\* line 815: o.keyFeatures.map of a truthy value that is no list raises
extractKitOverviewRaises(k) ==
    /\ k.overview.present
    /\ k.overview.hasKeyFeatures
    /\ ~k.overview.keyFeaturesIsList

\* extractLessons runs for each of the project names, extractKitOverview once
buildIndexesRaises(k) ==
    \/ Len(extractProjectNames) > 0 /\ extractLessonsRaises(k)
    \/ extractKitOverviewRaises(k)

NameSet(names) == {names[i] : i \in 1..Len(names)}

buildIndexes(k) ==
    LET projectNames == extractProjectNames
    IN  [projectNames      |-> projectNames,
         projectsByName    |-> [n \in NameSet(projectNames) |->
                                   extractProjectBlock(k, n)],
         lessonsByProject  |-> [n \in NameSet(projectNames) |->
                                   SortByRank(extractLessons(k, n))],
         canonicalPinsText |-> extractCanonicalPins(k),
         safetyText        |-> extractSafety(k),
         kitOverview       |-> extractKitOverview(k),
         componentsSummary |-> extractComponentsSummary(k),
         projectsSummary   |-> extractProjectsSummary(k),
         componentsMap     |-> extractComponentsMap(k),
         supportConfig     |-> extractSupportConfig(k)]

(***************************************************************************)
(* formatComponentsList(componentsSummary)                                 *)
(***************************************************************************)
CategoryLines(cats, key, title, listed) ==
    LET IsKey(c) == c.key = key
        at == FirstIndex(cats, 1, IsKey)
    IN  IF at = 0 THEN <<>>
        ELSE << "**" \o title \o " (" \o cats[at].count \o "):**",
                "- " \o (IF listed THEN Join(cats[at].components, ", ")
                         ELSE cats[at].description),
                "" >>

formatComponentsList(componentsSummary) ==
    LET cats == componentsSummary.categories
        lines ==
            << "The Robocoders Kit contains "
               \o (IF componentsSummary.totalCount \in {"", "0"} THEN "92"
                   ELSE componentsSummary.totalCount)
               \o " components including:\n" >>
         \o CategoryLines(cats, "controller", "Controller", TRUE)
         \o CategoryLines(cats, "sensors", "Sensors", TRUE)
         \o CategoryLines(cats, "actuators", "Actuators", TRUE)
         \o CategoryLines(cats, "lights", "Lights", TRUE)
         \o CategoryLines(cats, "power", "Power", TRUE)
         \o CategoryLines(cats, "structural", "Structural Components", FALSE)
         \o CategoryLines(cats, "craft", "Craft Materials", TRUE)
         \o CategoryLines(cats, "mechanical", "Mechanical Parts", TRUE)
         \o CategoryLines(cats, "wiring", "Wiring", FALSE)
         \o << "\nWould you like to know more about any specific component?" >>
    IN  Join(lines, "\n")

(***************************************************************************)
(* buildGroundedContext(opts): the sections, joined by a blank line.       *)
(***************************************************************************)
SafetyNotes ==
    "\n\nIMPORTANT SAFETY NOTES:\n- It is SAFE to plug and unplug sensors and components while the Robocoders Brain is powered on.\n- The system uses low voltage (5V from USB), so there is no risk of electric shock.\n- However, always handle components gently to avoid physical damage.\n- Do not force connections - they should fit smoothly."

CategoryKeys(cats) == [i \in 1..Len(cats) |-> cats[i].key]

LessonText(l) ==
    "- " \o l.lessonName \o "\n  " \o l.explainLine \o "\n  Videos: "
    \o Join(l.videoLinks, ", ")

LessonTexts(lessons) == [i \in 1..Len(lessons) |-> LessonText(lessons[i])]

ProjectSection(detectedProject, projectContext) ==
    "=== PROJECT: " \o detectedProject \o " ===\n" \o projectContext

LessonsSection(detectedProject, lessons) ==
    "=== LESSONS FOR " \o detectedProject \o " ===\n"
    \o Join(LessonTexts(lessons), "\n\n")

ProjectsSummarySection(projectsSummary) ==
    "=== PROJECTS SUMMARY ===\n"
    \o "There are 50 projects, out of which " \o projectsSummary.totalCount
    \o " are live. One project per week shall be launched.\n"
    \o "Available Projects: " \o Join(projectsSummary.projectList, ", ")

FocusLessonsOfAll(detectedProject, lessonsByProject) ==
    lessonsByProject["Candle Lamp"] \o lessonsByProject[detectedProject]

FocusLessons(detectedProject, lessonsByProject) ==
    lessonsByProject[detectedProject]

ContextSections(detectedProject, projectContext, ix) ==
       << "=== KIT OVERVIEW ===\n" \o ix.kitOverview >>
    \o (IF ix.safetyText # ""
        THEN << "=== SAFETY RULES ===\n" \o ix.safetyText \o SafetyNotes >>
        ELSE <<>>)
    \o (IF ix.canonicalPinsText # ""
        THEN << "=== PORT MAPPINGS ===\n" \o ix.canonicalPinsText >>
        ELSE <<>>)
    \o << "=== COMPONENTS SUMMARY ===\n"
          \o "Total Components: " \o ix.componentsSummary.totalCount \o "\n"
          \o "Categories available: "
          \o Join(CategoryKeys(ix.componentsSummary.categories), ", ") >>
    \o << ProjectsSummarySection(ix.projectsSummary) >>
    \o (IF Truthy(detectedProject) /\ Truthy(projectContext)
        THEN << ProjectSection(detectedProject, projectContext) >>
             \o (IF Len(FocusLessons(detectedProject, ix.lessonsByProject)) > 0
                 THEN << LessonsSection(detectedProject,
                            FocusLessons(detectedProject, ix.lessonsByProject)) >>
                 ELSE <<>>)
        ELSE <<>>)

buildGroundedContext(detectedProject, projectContext, ix) ==
    Join(ContextSections(detectedProject, projectContext, ix), "\n\n")

(***************************************************************************)
(* resolveContextFromHistory(history, projectNames, componentsMap): the    *)
(* turns from the most recent to the oldest.  A turn is [role, content].   *)
(***************************************************************************)
RECURSIVE ResolveLoop(_, _, _, _, _, _)
ResolveLoop(history, i, projectNames, componentsMap, lastProject, lastComponent) ==
    IF i < 1 \/ (Truthy(lastProject) /\ Truthy(lastComponent))
    THEN [lastProject |-> lastProject, lastComponent |-> lastComponent]
    ELSE IF history[i].content = ""
    THEN ResolveLoop(history, i - 1, projectNames, componentsMap,
                     lastProject, lastComponent)
    ELSE ResolveLoop(history, i - 1, projectNames, componentsMap,
             IF Truthy(lastProject) THEN lastProject
             ELSE detectProject(history[i].content, projectNames),
             IF Truthy(lastComponent) THEN lastComponent
             ELSE detectComponent(history[i].content, componentsMap))

resolveContextFromHistoryLatestOnly(history, projectNames, componentsMap) ==
    ResolveLoop(SubSeq(history, Len(history), Len(history)),
                IF Len(history) > 0 THEN 1 ELSE 0,
                projectNames, componentsMap, null, null)

resolveContextFromHistory(history, projectNames, componentsMap) ==
    ResolveLoop(history, Len(history), projectNames, componentsMap, null, null)

(***************************************************************************)
(* The handler's replies.                                                  *)
(***************************************************************************)
NoResponse ==
    [status |-> 0, text |-> null, error |-> null, kbMode |-> null,
     detectedProject |-> null, lessonsReturned |-> 0, supportTriggered |-> FALSE,
     details |-> null]

ErrorReply(status, error) ==
    [NoResponse EXCEPT !.status = status, !.error = error]

Numbered(items) == [i \in 1..Len(items) |-> ToString(i) \o ". " \o items[i]]

ListProjectsText(ix) ==
    "There are 50 projects, out of which " \o ix.projectsSummary.totalCount
    \o " are live. One project per week shall be launched.\n\nHere are the "
    \o ix.projectsSummary.totalCount \o " live projects:\n\n"
    \o Join(Numbered(ix.projectNames), "\n")
    \o "\n\nTell me which project you'd like to learn more about!"

AskProjectText ==
    "Tell me the project/module name (example: Mood Lamp, Coin Counter, Game Controller), and I'll share all the relevant lesson videos for that project."

NoVideosText(project) ==
    "I found the project \"" \o project
    \o "\", but no lesson videos are mapped for it in the knowledge file.\n"
    \o "If you share the lesson links for this project, I'll add them into the KB mapping."

VideoItemFirstLink(v, n) ==
    ToString(n) \o ". " \o v.lessonName \o "\n"
    \o (IF v.explainLine # "" THEN "Why this helps: " \o v.explainLine \o "\n" ELSE "")
    \o "Links:\n" \o Join(Dashed(SubSeq(v.videoLinks, 1, 1)), "\n")

VideoItem(v, n) ==
    ToString(n) \o ". " \o v.lessonName \o "\n"
    \o (IF v.explainLine # "" THEN "Why this helps: " \o v.explainLine \o "\n" ELSE "")
    \o "Links:\n" \o Join(Dashed(v.videoLinks), "\n")

VideosText(project, videos) ==
    "Lesson videos for " \o project \o ":\n\n"
    \o Join([i \in 1..Len(videos) |-> VideoItem(videos[i], i)], "\n\n")

SupportText(c) ==
    "**Need help?**\n\n" \o c.message \o "\n\n" \o c.email \o "\n"
    \o c.phone \o "\n" \o c.hours

(***************************************************************************)
(* Inputs: the request bodies, the KB documents the fetch may return and   *)
(* the texts the provider may answer with.                                 *)
(***************************************************************************)
Messages ==
    { "", "   ", "what's inside the kit?", "list all components", "list the projects",
      "show me all projects", "show me videos for Mood Lamp",
      "show me some videos", "show me videos for Candle Lamp",
      "what components does it use?", "my motor is broken and missing",
      "my motor is broken", "tell me about Mood Lamp",
      "how does the potentiometer work", "hello there", "  Candle Lamp " }

Turns ==
    { [role |-> "user", content |-> "tell me about Mood Lamp"],
      [role |-> "assistant", content |-> "The Candle Lamp glows with an LDR sensor and a potentiometer knob."],
      [role |-> "user", content |-> ""] }

RECURSIVE SeqsUpTo(_, _)
SeqsUpTo(S, n) ==
    IF n = 0 THEN {<<>>}
    ELSE LET shorter == SeqsUpTo(S, n - 1)
         IN  shorter \cup {Append(q, x) : q \in shorter, x \in S}

Histories == SeqsUpTo(Turns, MaxHistory)

\* body.messages, lines 108-118: an array of turns; a string that is not
\* JSON (history stays []); the strings "null" and "{}", which parse to a
\* value that is no array
MessagesInputs ==
    {[kind |-> "array", history |-> h] : h \in Histories}
    \cup {[kind |-> k, history |-> <<>>] : k \in {"bad json", "json null", "json object"}}

NoPage ==
    [type |-> "", projectName |-> "", text |-> "", componentId |-> "",
     componentName |-> ""]

NoOverview ==
    [present |-> FALSE, kitName |-> "", description |-> "", whatIsInside |-> "",
     hasKeyFeatures |-> FALSE, keyFeatures |-> <<>>,
     keyFeaturesIsList |-> TRUE, totalProjects |-> "",
     totalComponents |-> "", ageRange |-> ""]

\* the document {}
KBEmpty ==
    [hasPages |-> FALSE, pages |-> <<>>, projects |-> <<>>, lessons |-> <<>>,
     hasGlossary |-> FALSE, glossary |-> <<>>, overview |-> NoOverview,
     componentsSummary |-> [present |-> FALSE, totalCount |-> "", categories |-> <<>>],
     support |-> NoSupport]

SupportOn(reasons) ==
    [enabled |-> TRUE, show_when |-> reasons,
     message |-> "Our team can help you with this.",
     email |-> "support@example.com", phone |-> "+91 00000 00000",
     hours |-> "Mon-Sat 10-6"]

\* structured projects, lessons, glossary, overview and support
KBStructured ==
    [KBEmpty EXCEPT
        !.projects = <<
            [name |-> "Mood Lamp", description |-> "A lamp that changes colour.",
             has |-> {"componentsUsed", "steps"},
             componentsUsed |-> <<"RGB LED", "Potentiometer">>,
             connections |-> <<>>,
             steps |-> <<"Plug the RGB LED.", "Turn the knob.">>],
            [name |-> "Candle Lamp", description |-> "",
             has |-> {"componentsUsed"},
             componentsUsed |-> <<"LDR Sensor", "LED">>,
             connections |-> <<>>, steps |-> <<>>] >>,
        !.lessons = <<
            [project |-> "Mood Lamp", lesson_name |-> "Mood Lamp Coding",
             isArray |-> TRUE,
             urls |-> <<"https://v.example/ml-c1", " https://v.example/ml-c1",
                        "https://v.example/ml-c2">>],
            [project |-> "Candle Lamp", lesson_name |-> "Candle Lamp Intro",
             isArray |-> FALSE, urls |-> <<"https://v.example/cl-i">>],
            [project |-> "Mood Lamp", lesson_name |-> "Mood Lamp Connection",
             isArray |-> FALSE, urls |-> <<"https://v.example/ml-k">>] >>,
        !.hasGlossary = TRUE,
        !.glossary = << [id |-> "potentiometer", name |-> "Potentiometer"],
                        [id |-> "rgb_led", name |-> "RGB LED"],
                        [id |-> "dc_motor", name |-> "DC Motor"] >>,
        !.overview = [NoOverview EXCEPT !.present = TRUE,
                         !.kitName = "Robocoders Kit",
                         !.hasKeyFeatures = TRUE,
                         !.keyFeatures = <<"21 projects", "Block coding">>,
                         !.ageRange = "8-14"],
        !.componentsSummary =
            [present |-> TRUE, totalCount |-> "92",
             categories |-> << [key |-> "sensors", count |-> "2",
                                components |-> <<"IR Sensor", "LDR">>,
                                description |-> ""],
                               [key |-> "wiring", count |-> "10",
                                components |-> <<>>,
                                description |-> "Jumper wires"] >>],
        !.support = SupportOn(<<"PART_MISSING", "HARDWARE_DAMAGED">>)]

\* free-text pages only; support enabled for requested support alone
KBPages ==
    [KBEmpty EXCEPT
        !.hasPages = TRUE,
        !.pages = <<
            [NoPage EXCEPT !.text = "GLOBAL SAFETY\nAsk an adult for help.  \n\n\n\nKeep water away."],
            [NoPage EXCEPT !.text = "Fixed Port Mappings\nRGB LED: port 3"],
            [NoPage EXCEPT !.type = "project", !.projectName = "coin counter",
                           !.text = "Coin Counter counts coins with an IR sensor."],
            [NoPage EXCEPT !.text = "Project Name: Mood Lamp\nComponents: RGB LED, Potentiometer\nLesson ID: ML-1\nLesson Name (Canonical): Mood Lamp Working\nVideo: https://v.example/ml-w1 and https://v.example/ml-w2\nWhat this lesson helps with: seeing the lamp work When the AI should use it"],
            [NoPage EXCEPT !.text = "Build 1\nLesson Name: Mood Lamp Build\nhttps://v.example/ml-b"],
            [NoPage EXCEPT !.text = "Project Name: Candle Lamp\nComponents: LDR Sensor, LED"],
            [NoPage EXCEPT !.type = "component", !.componentId = "ldr",
                           !.componentName = "LDR Sensor",
                           !.text = "Description: senses light"] >>,
        !.support = SupportOn(<<"USER_REQUESTED_SUPPORT">>)]

KBs == {KBEmpty, KBStructured, KBPages}

\* documents that parse and carry an ill-typed section: a null entry in
\* lessons, and overview.keyFeatures a text instead of a list
KBNullLesson == [KBStructured EXCEPT !.lessons = Append(@, NullLesson)]

KBKeyFeaturesText ==
    [KBStructured EXCEPT !.overview.keyFeaturesIsList = FALSE,
                         !.overview.keyFeatures = <<>>]

KBsIllTyped == {KBNullLesson, KBKeyFeaturesText}

\* what the planner may write back for the text it was sent
PlannerOutputs ==
    { "", "Please explain this step by step.",
      "Which components does the project use?" }

Replies == { "Sure! Here is how it works.", "" }

RECURSIVE Repeated(_, _)
Repeated(s, n) ==
    IF n = 0 THEN ""
    ELSE IF n = 1 THEN s
    ELSE Repeated(s, n \div 2) \o Repeated(s, n - n \div 2)

\* bodies of a non-success answer of the provider: empty, short, and longer
\* than the excerpt the handler passes on
Diagnostics ==
    { "", "{\"error\":{\"message\":\"Incorrect API key provided\"}}",
      Repeated("Rate limit reached for requests. ", 30) }

ExcerptWhole(t) == t

DetailsLimit == 800

\* line 374: t.slice(0, 800)
Excerpt(t) == SubSeq(t, 1, IF Len(t) < DetailsLimit THEN Len(t) ELSE DetailsLimit)

DefaultImageText == "Please look at the uploaded image and help me."

(***************************************************************************)
(* The requests the handler of part_003 serves at the same time.           *)
(***************************************************************************)
Concurrent == 2

Requests == 1..Concurrent

Idle == [pc |-> "idle", userInput |-> "", own |-> "", hasKb |-> FALSE,
         status |-> 0, text |-> null]

(***************************************************************************)
(* The request of src/api/generate-image.js before it arrives.             *)
(***************************************************************************)
NoImage ==
    [pc |-> "idle", userPrompt |-> null, isWorksheet |-> FALSE,
     enhancer |-> "none", enhanced |-> [ok |-> FALSE, prompt |-> null],
     calls |-> <<>>, status |-> 0, message |-> null]

(***************************************************************************)
(* The handler.  It is suspended at the upload parse, the KB fetch, the    *)
(* planner call and the answer call; each action runs it from one of them  *)
(* to the next, or to its response.                                        *)
(***************************************************************************)
NoDetection ==
    [rawUserText |-> null, rawIntent |-> null, rawDetectedProject |-> null,
     detectedComponent |-> null, plannedUserText |-> null,
     detectedProject |-> null, supportReason |-> null, groundedContext |-> null,
     rawDetectedComponent |-> null, plannedProject |-> null,
     plannedComponent |-> null, lastProject |-> null, lastComponent |-> null]

Respond(r) == res' = r /\ pc' = "done"

Init ==
    /\ pc = "idle"
    /\ req = [body |-> "", message |-> "", hasFile |-> FALSE,
              messages |-> "array", history |-> <<>>]
    /\ kb = KBEmpty
    /\ idx = [built |-> FALSE]
    /\ det = NoDetection
    /\ calls = <<>>
    /\ res = NoResponse
    /\ provider = [outcome |-> "none", body |-> null]
    /\ fnIn = [fn |-> "none"]
    /\ fnOut = null
    /\ lastKbDebug = ""
    /\ inflight = [r \in Requests |-> Idle]
    /\ img = NoImage

\* lines 72-96: CORS preflight, origin allowlist, method, start of the upload
Receive ==
    /\ pc = "idle"
    /\ \E method \in {"OPTIONS", "GET", "POST"}, originAllowed \in BOOLEAN :
          IF method = "OPTIONS" THEN Respond(ErrorReply(204, null))
          ELSE IF ~originAllowed THEN Respond(ErrorReply(403, "Forbidden origin"))
          ELSE IF method # "POST"
               THEN Respond(ErrorReply(405, "Method not allowed. Use POST."))
          ELSE pc' = "upload" /\ res' = res
    /\ UNCHANGED <<req, kb, idx, det, calls, fnIn, fnOut, provider, lastKbDebug, inflight, img>>

\* lines 91-136: the upload parse settles; the body is read, the KB fetched
UploadSettles ==
    /\ pc = "upload"
    /\ \E ok \in BOOLEAN :
          IF ~ok
          THEN \* the rejection is outside the try block: the handler throws
               /\ pc' = "crashed"
               /\ UNCHANGED <<req, det, calls, res>>
          ELSE \E body \in Messages, hasFile \in BOOLEAN, knowledgeUrl \in BOOLEAN :
                  LET message == Trim(body)
                  IN  /\ req' = [body |-> body, message |-> message,
                                 hasFile |-> hasFile, messages |-> "array",
                                 history |-> <<>>]
                      /\ IF message = "" /\ ~hasFile
                         THEN /\ Respond(ErrorReply(400,
                                    "Please type a message or upload an image to continue"))
                              /\ UNCHANGED <<det, calls>>
                         ELSE IF ~knowledgeUrl
                         THEN /\ Respond(ErrorReply(500, "KNOWLEDGE_URL is not set in env."))
                              /\ UNCHANGED <<det, calls>>
                         ELSE /\ det' = [det EXCEPT !.rawUserText =
                                            IF message # "" THEN message
                                            ELSE DefaultImageText]
                              /\ calls' = Append(calls, "kb")
                              /\ pc' = "kb"
                              /\ res' = res
    /\ UNCHANGED <<kb, idx, fnIn, fnOut, provider, lastKbDebug, inflight, img>>

SupportTriggeredAnyReason(supportReason, supportConfig) ==
    Truthy(supportReason) /\ supportConfig.enabled

\* lines 295-299
SupportTriggered(supportReason, supportConfig) ==
    /\ Truthy(supportReason)
    /\ supportConfig.enabled
    /\ Member(supportReason, supportConfig.show_when)

FinalProjectHistoryFirst(rawDetectedProject, plannedProject, lastProject) ==
    OrElse(lastProject, OrElse(rawDetectedProject, plannedProject))

FinalProjectNoHistory(rawDetectedProject, plannedProject, lastProject) ==
    OrElse(rawDetectedProject, plannedProject)

\* lines 276-279: rawDetectedProject || detectProject(planned) || lastProject
FinalProject(rawDetectedProject, plannedProject, lastProject) ==
    OrElse(rawDetectedProject, OrElse(plannedProject, lastProject))

\* lines 285-353: the support check; the support reply, or the grounded
\* context and the answer call
AfterSupportCheck(d, ix, m, detectedProject, projectContext, supportReason) ==
    /\ req' = [req EXCEPT !.messages = m.kind, !.history = m.history]
    /\ IF SupportTriggered(supportReason, ix.supportConfig)
       THEN /\ det' = [d EXCEPT !.detectedProject = detectedProject,
                                !.supportReason = supportReason]
            /\ calls' = calls
            /\ Respond([NoResponse EXCEPT
                   !.status = 200,
                   !.text = SupportText(ix.supportConfig),
                   !.supportTriggered = TRUE,
                   !.detectedProject = detectedProject])
       ELSE /\ det' = [d EXCEPT !.detectedProject = detectedProject,
                                !.supportReason = supportReason,
                                !.groundedContext =
                                    buildGroundedContext(detectedProject,
                                                         projectContext, ix)]
            /\ IF m.kind = "json object"
               THEN \* line 337: for...of over a value that is not iterable
                    /\ calls' = calls
                    /\ Respond(ErrorReply(500, "Internal server error"))
               ELSE /\ calls' = Append(calls, "answer")
                    /\ pc' = "answer"
                    /\ res' = res

\* lines 285-292: the support classification of the raw text
AfterContext(d, ix, m, detectedProject, detectedComponent, projectContext) ==
    AfterSupportCheck([d EXCEPT !.detectedComponent = detectedComponent],
                      ix, m, detectedProject, projectContext,
                      detectSupportFailure(d.rawUserText, detectedProject,
                                           projectContext, detectedComponent))

AfterResolve(d, ix, m, detectedProject, detectedComponent) ==
    AfterContext(d, ix, m, detectedProject, detectedComponent,
                 IF Truthy(detectedProject)
                 THEN OrElse(ix.projectsByName[detectedProject], null) ELSE null)

\* lines 276-282: the final project and component
AfterHistory(d, ix, m, plannedProject, plannedComponent, h) ==
    AfterResolve([d EXCEPT !.rawDetectedComponent = d.detectedComponent,
                           !.plannedProject = plannedProject,
                           !.plannedComponent = plannedComponent,
                           !.lastProject = h.lastProject,
                           !.lastComponent = h.lastComponent],
                 ix, m,
                 FinalProject(d.rawDetectedProject, plannedProject, h.lastProject),
                 OrElse(plannedComponent,
                        OrElse(d.detectedComponent, h.lastComponent)))

\* lines 270-353: history resolution, the support check, the grounded
\* context, up to the answer call
AfterPlanner(d, ix, planned, plannedProject, plannedComponent, m) ==
    IF m.kind = "json null"
    THEN \* line 613: history.length of null throws, caught at line 399
         /\ req' = [req EXCEPT !.messages = m.kind, !.history = m.history]
         /\ det' = [d EXCEPT !.plannedUserText = planned]
         /\ calls' = calls
         /\ Respond(ErrorReply(500, "Internal server error"))
    ELSE AfterHistory([d EXCEPT !.plannedUserText = planned], ix, m,
                      plannedProject, plannedComponent,
                      resolveContextFromHistory(m.history, ix.projectNames,
                                                ix.componentsMap))

IsDeterministicOverviewOnly(rawIntent, rawDetectedProject) ==
    rawIntent = "KIT_OVERVIEW"

\* lines 165-248: the intents that are answered from the KB alone
IsDeterministic(rawIntent, rawDetectedProject) ==
    \/ rawIntent \in {"KIT_OVERVIEW", "COMPONENTS_LIST", "PROJECT_VIDEOS"}
    \/ rawIntent = "LIST_PROJECTS" /\ ~Truthy(rawDetectedProject)

DeterministicReplyGuessesProject(rawIntent, rawDetectedProject, ix) ==
    IF rawIntent = "PROJECT_VIDEOS" /\ ~Truthy(rawDetectedProject)
    THEN [NoResponse EXCEPT
            !.status = 200,
            !.text = VideosText("Mood Lamp", ix.lessonsByProject["Mood Lamp"]),
            !.detectedProject = "Mood Lamp",
            !.lessonsReturned = Len(ix.lessonsByProject["Mood Lamp"]),
            !.kbMode = "deterministic"]
    ELSE [NoResponse EXCEPT !.status = 200, !.text = ix.kitOverview]

DeterministicReply(rawIntent, rawDetectedProject, ix) ==
    IF rawIntent = "KIT_OVERVIEW"
    THEN [NoResponse EXCEPT !.status = 200, !.text = ix.kitOverview,
                            !.kbMode = "deterministic_overview"]
    ELSE IF rawIntent = "COMPONENTS_LIST"
    THEN [NoResponse EXCEPT !.status = 200,
                            !.text = formatComponentsList(ix.componentsSummary),
                            !.kbMode = "deterministic_components"]
    ELSE IF rawIntent = "LIST_PROJECTS"
    THEN [NoResponse EXCEPT !.status = 200, !.text = ListProjectsText(ix),
                            !.kbMode = "deterministic"]
    ELSE IF ~Truthy(rawDetectedProject)
    THEN [NoResponse EXCEPT !.status = 200, !.text = AskProjectText]
    ELSE IF Len(ix.lessonsByProject[rawDetectedProject]) = 0
    THEN [NoResponse EXCEPT !.status = 200,
                            !.text = NoVideosText(rawDetectedProject),
                            !.detectedProject = rawDetectedProject]
    ELSE [NoResponse EXCEPT
            !.status = 200,
            !.text = VideosText(rawDetectedProject,
                                ix.lessonsByProject[rawDetectedProject]),
            !.detectedProject = rawDetectedProject,
            !.lessonsReturned = Len(ix.lessonsByProject[rawDetectedProject]),
            !.kbMode = "deterministic"]

\* lines 165-267: the deterministic replies, the API key, the planner call
KbDetected(k, ix, d) ==
    /\ kb' = k
    /\ idx' = ix
    /\ det' = d
    /\ IF IsDeterministic(d.rawIntent, d.rawDetectedProject)
       THEN /\ \E m \in MessagesInputs :
                  req' = [req EXCEPT !.messages = m.kind, !.history = m.history]
            /\ calls' = calls
            /\ Respond(DeterministicReply(d.rawIntent, d.rawDetectedProject, ix))
       ELSE \E apiKey \in BOOLEAN :
              IF ~apiKey
              THEN /\ UNCHANGED <<req, calls>>
                   /\ Respond(ErrorReply(500, "OPENAI_API_KEY is not set in env."))
              ELSE /\ ~req.hasFile
                   /\ calls' = Append(calls, "planner")
                   /\ pc' = "planner"
                   /\ UNCHANGED <<req, res>>

\* the same with a file attached and an API key: no planner call, the code
\* after it runs on the raw text
KbDetectedFile(k, ix, d) ==
    /\ ~IsDeterministic(d.rawIntent, d.rawDetectedProject)
    /\ req.hasFile
    /\ kb' = k
    /\ idx' = ix
    /\ \E m \in MessagesInputs :
          AfterPlanner(d, ix, d.rawUserText, d.rawDetectedProject,
                       d.detectedComponent, m)

\* lines 160-162: intent, project and component of the raw text
KbIndexed(k, ix, d) ==
    \/ KbDetected(k, ix, d)
    \/ KbDetectedFile(k, ix, d)

RawDetection(ix) ==
    [det EXCEPT
        !.rawIntent = detectIntent(det.rawUserText, ix.projectNames, ix.componentsMap),
        !.rawDetectedProject = detectProject(det.rawUserText, ix.projectNames),
        !.detectedComponent = detectComponent(det.rawUserText, ix.componentsMap)]

KbFetched(k, ix) == KbIndexed(k, ix, RawDetection(ix))

\* lines 136-267: the KB fetch settles; indexes, detection, the
\* deterministic replies, else the planner call (no file) or the code after it
KbSettles ==
    /\ pc = "kb"
    /\ \E outcome \in {"rejected", "not ok", "bad json", "ok"} :
          IF outcome = "not ok"
          THEN /\ Respond(ErrorReply(500, "Failed to fetch knowledge JSON."))
               /\ UNCHANGED <<req, kb, idx, det, calls>>
          ELSE IF outcome # "ok"
          THEN /\ Respond(ErrorReply(500, "Internal server error"))
               /\ UNCHANGED <<req, kb, idx, det, calls>>
          ELSE \E k \in KBs \cup KBsIllTyped :
                  IF buildIndexesRaises(k)
                  THEN /\ kb' = k
                       /\ Respond(ErrorReply(500, "Internal server error"))
                       /\ UNCHANGED <<req, idx, det, calls>>
                  ELSE KbFetched(k, buildIndexes(k))
    /\ UNCHANGED <<fnIn, fnOut, provider, lastKbDebug, inflight, img>>

\* lines 44-67, 259-267: the planner call settles; a failure of any kind
\* (and an empty rewrite) leaves the raw text
PlannerSettles ==
    /\ pc = "planner"
    /\ \E out \in PlannerOutputs \cup {"<failed>"} :
          LET planned == IF out = "<failed>" THEN det.rawUserText
                         ELSE OrElse(Trim(out), Trim(det.rawUserText))
              plannedProject == detectProject(planned, idx.projectNames)
              plannedComponent == detectComponent(planned, idx.componentsMap)
          IN  \E m \in MessagesInputs :
                 AfterPlanner(det, idx, planned, plannedProject,
                              plannedComponent, m)
    /\ UNCHANGED <<kb, idx, fnIn, fnOut, provider, lastKbDebug, inflight, img>>

AnswerSettlesRetrying ==
    /\ pc = "answer"
    /\ Len(calls) < 5
    /\ calls' = Append(calls, "answer")
    /\ provider' = [outcome |-> "not ok", body |-> null]
    /\ UNCHANGED <<pc, req, kb, idx, det, res, fnIn, fnOut, lastKbDebug, inflight, img>>

\* lines 356-405: the answer call settles
AnswerSettles ==
    /\ pc = "answer"
    /\ \E outcome \in {"rejected", "not ok", "ok"} :
          IF outcome = "rejected"
          THEN /\ provider' = [outcome |-> outcome, body |-> null]
               /\ Respond(ErrorReply(500, "Internal server error"))
          ELSE IF outcome = "not ok"
          THEN \E t \in Diagnostics \cup {null} :
                  \* null: reading the body fails, .catch(() => "")
                  /\ provider' = [outcome |-> outcome, body |-> t]
                  /\ Respond([ErrorReply(500, "OpenAI API error") EXCEPT
                                 !.details = Excerpt(OrElse(t, ""))])
          ELSE \E reply \in Replies :
                  /\ provider' = [outcome |-> outcome, body |-> reply]
                  /\ Respond([NoResponse EXCEPT
                         !.status = 200, !.text = Trim(reply), !.kbMode = "llm",
                         !.detectedProject = det.detectedProject])
    /\ UNCHANGED <<req, kb, idx, det, calls, fnIn, fnOut, lastKbDebug, inflight, img>>

Next == Receive \/ UploadSettles \/ KbSettles \/ PlannerSettles \/ AnswerSettles

Spec == Init /\ [][Next]_vars

\* the places where the handler waits for a promise
Awaiting == {"idle", "upload", "kb", "planner", "answer"}

\* an awaited promise settles and the handler runs on to another place: the
\* steps of Next are exactly these, seen on pc alone
Settles ==
    /\ pc \in Awaiting
    /\ pc' \in (Awaiting \cup {"done", "crashed"}) \ {pc}

\* every awaited promise settles: the request arrives, the upload parse, the
\* KB fetch and the provider calls each call back or reject
SpecFair == Spec /\ WF_pc(Settles)

(***************************************************************************)
(* The detection functions on their own: detectProject over the canonical  *)
(* names in three letter cases and over free texts, detectSupportFailure   *)
(* over texts with and without a detected project, block and component.    *)
(***************************************************************************)
UpperOf == [c \in {CharAt(LowerAlpha, i) : i \in 1..26} |->
               CharAt(UpperAlpha, MinOf({i \in 1..26 : CharAt(LowerAlpha, i) = c}))]

RECURSIVE UpperCased(_, _, _)
UpperCased(s, lo, hi) ==
    IF lo > hi THEN ""
    ELSE IF lo = hi
    THEN (IF CharAt(s, lo) \in DOMAIN UpperOf THEN UpperOf[CharAt(s, lo)]
          ELSE CharAt(s, lo))
    ELSE UpperCased(s, lo, (lo + hi) \div 2) \o UpperCased(s, (lo + hi) \div 2 + 1, hi)

NameTexts ==
    UNION {{extractProjectNames[i],
            UpperCased(extractProjectNames[i], 1, Len(extractProjectNames[i])),
            ToLowerCase(extractProjectNames[i])} : i \in 1..Len(extractProjectNames)}

FreeTexts ==
    Messages \cup
    { "the", "hello there", "hi", "roll the dice please", "moodlamp",
      "I love my table", "is the fan spinning", "game", "lamp" }

SupportTexts ==
    { "my motor is broken and missing", "my motor is broken",
      "the sensor is missing", "the wire got burnt and one is lost",
      "it is damaged and not in kit, please call me", "my led does not glow",
      "how do I start?", "the board is faulty but nothing is missing" }

ApplyDetectProject ==
    /\ fnIn.fn = "none"
    /\ \E text \in NameTexts \cup FreeTexts :
          /\ fnIn' = [fn |-> "detectProject", text |-> text]
          /\ fnOut' = detectProject(text, extractProjectNames)
    /\ UNCHANGED <<pc, req, kb, idx, det, calls, res, provider, lastKbDebug, inflight, img>>

ApplyDetectSupportFailure ==
    /\ fnIn.fn = "none"
    /\ \E userText \in SupportTexts, detectedProject \in {null, "Mood Lamp"},
          projectContext \in {null, "A lamp that changes colour."},
          detectedComponent \in {null, "dc_motor"} :
          /\ fnIn' = [fn |-> "detectSupportFailure", userText |-> userText,
                      detectedProject |-> detectedProject,
                      projectContext |-> projectContext,
                      detectedComponent |-> detectedComponent]
          /\ fnOut' = detectSupportFailure(userText, detectedProject,
                                          projectContext, detectedComponent)
    /\ UNCHANGED <<pc, req, kb, idx, det, calls, res, provider, lastKbDebug, inflight, img>>

\* resolveContextFromHistory on the histories of the handler, with the
\* component map of each KB
ApplyResolveContextFromHistory ==
    /\ fnIn.fn = "none"
    /\ \E history \in Histories, k \in KBs :
          /\ fnIn' = [fn |-> "resolveContextFromHistory", history |-> history,
                      componentsMap |-> extractComponentsMap(k)]
          /\ fnOut' = resolveContextFromHistory(history, extractProjectNames,
                                                extractComponentsMap(k))
    /\ UNCHANGED <<pc, req, kb, idx, det, calls, res, provider, lastKbDebug, inflight, img>>

\* texts for each pattern of detectIntent, with and without a project name
IntentTexts ==
    { "what is in the kit", "What is in the Mood Lamp kit?",
      "tell me about the Mood Lamp kit", "kit overview for Candle Lamp",
      "what is robocoders", "what is robocoders Mood Lamp",
      "what is the robocoders brain", "list all components",
      "how does the potentiometer work",
      "how does the potentiometer work in Mood Lamp",
      "explain the RGB LED", "Tell me about the DC Motor in TABLE FAN",
      "what does the potentiometer do", "list the projects",
      "show me videos for Mood Lamp", "show me some videos", "hello there" }

ApplyDetectIntent ==
    /\ fnIn.fn = "none"
    /\ \E text \in IntentTexts, k \in {KBEmpty, KBStructured, KBPages} :
          /\ fnIn' = [fn |-> "detectIntent", text |-> text,
                      componentsMap |-> extractComponentsMap(k)]
          /\ fnOut' = detectIntent(text, extractProjectNames,
                                   extractComponentsMap(k))
    /\ UNCHANGED <<pc, req, kb, idx, det, calls, res, provider, lastKbDebug, inflight, img>>

NextDetect ==
    \/ ApplyDetectProject
    \/ ApplyDetectSupportFailure
    \/ ApplyDetectIntent
    \/ ApplyResolveContextFromHistory

SpecDetect == Init /\ [][NextDetect]_vars

(***************************************************************************)
(* The index and the grounded context on their own: buildIndexes over KB   *)
(* documents with up to MaxLessons structured lesson records, and          *)
(* buildGroundedContext for every canonical project over the documents of  *)
(* the handler.                                                            *)
(***************************************************************************)
LessonPool ==
    { [project |-> "Mood Lamp", lesson_name |-> "Mood Lamp Connection",
       isArray |-> FALSE, urls |-> <<"https://v.example/k">>],
      [project |-> "Mood Lamp", lesson_name |-> "Build the lamp",
       isArray |-> FALSE, urls |-> <<"https://v.example/b1">>],
      [project |-> "Mood Lamp", lesson_name |-> "Build the shade",
       isArray |-> FALSE, urls |-> <<" https://v.example/b2 ">>],
      [project |-> "Mood Lamp", lesson_name |-> "Coding",
       isArray |-> TRUE,
       urls |-> <<"https://v.example/c1", "https://v.example/c1 ",
                  "", "https://v.example/c2">>],
      [project |-> "Mood Lamp", lesson_name |-> "Working",
       isArray |-> FALSE, urls |-> <<"">>],
      [project |-> "Mood Lamp", lesson_name |-> "Intro",
       isArray |-> FALSE, urls |-> <<"https://v.example/i">>],
      [project |-> "Mood Lamp", lesson_name |-> "Tips",
       isArray |-> TRUE, urls |-> <<"https://v.example/t">>],
      [project |-> "Candle Lamp", lesson_name |-> "Candle Lamp Build",
       isArray |-> FALSE, urls |-> <<"https://v.example/cb">>] }

LessonKBs ==
    {[KBEmpty EXCEPT !.lessons = ls] : ls \in SeqsUpTo(LessonPool, MaxLessons)}

ExtractedLessons(k) ==
    [n \in NameSet(extractProjectNames) |-> extractLessons(k, n)]

\* a document with a project list of its own: a name the built-in list does
\* not hold, a name it holds, and the first name again
KBOwnProjects ==
    [KBEmpty EXCEPT
        !.projects = << [KBStructured.projects[1] EXCEPT !.name = "Line Follower"],
                        KBStructured.projects[2],
                        [KBStructured.projects[1] EXCEPT !.name = "Line Follower"] >>]

ApplyBuildIndexes ==
    /\ fnIn.fn = "none"
    /\ \E k \in LessonKBs \cup KBs \cup {KBOwnProjects} :
          /\ fnIn' = [fn |-> "buildIndexes", kb |-> k]
          /\ fnOut' = [extracted |-> ExtractedLessons(k),
                       projectNames |-> buildIndexes(k).projectNames,
                       lessonsByProject |-> buildIndexes(k).lessonsByProject]
    /\ UNCHANGED <<pc, req, kb, idx, det, calls, res, provider, lastKbDebug, inflight, img>>

KbAfterBuildIndexesDrained(k) == [k EXCEPT !.lessons = <<>>]

\* the KB document after a call of buildIndexes: the extraction functions
\* read the document and build arrays of their own (uniq, dedupeLessons and
\* the map calls return new arrays); the one operation in place, the sort of
\* line 415, acts on the array dedupeLessons returned
KbAfterBuildIndexes(k) == k

IndexesOf(k) ==
    [projectNames |-> buildIndexes(k).projectNames,
     projectsByName |-> buildIndexes(k).projectsByName,
     lessonsByProject |-> buildIndexes(k).lessonsByProject]

\* the pages of KBPages together with the project records of KBStructured:
\* Mood Lamp and Candle Lamp have a page and a record
KBPagesAndRecords == [KBPages EXCEPT !.projects = KBStructured.projects]

\* extractProjectBlock(kb, projectName) for each name of the list
ApplyExtractProjectBlock ==
    /\ fnIn.fn = "none"
    /\ \E k \in KBs \cup {KBPagesAndRecords},
          projectName \in NameSet(extractProjectNames) :
          /\ fnIn' = [fn |-> "extractProjectBlock", kb |-> k,
                      projectName |-> projectName]
          /\ fnOut' = extractProjectBlock(k, projectName)
    /\ UNCHANGED <<pc, req, kb, idx, det, calls, res, provider, lastKbDebug, inflight, img>>

\* buildIndexes(kb) called twice on one document
ApplyBuildIndexesTwice ==
    /\ fnIn.fn = "none"
    /\ \E k \in KBs \cup {KBOwnProjects} :
          /\ fnIn' = [fn |-> "buildIndexes twice", kb |-> k]
          /\ fnOut' = [first |-> IndexesOf(k),
                       kbAfter |-> KbAfterBuildIndexes(k),
                       second |-> IndexesOf(KbAfterBuildIndexes(k))]
    /\ UNCHANGED <<pc, req, kb, idx, det, calls, res, provider, lastKbDebug, inflight, img>>

ContextFor(k, detectedProject, ix) ==
    [projectsByName |-> ix.projectsByName,
     lessonsByProject |-> ix.lessonsByProject,
     context |-> buildGroundedContext(
                    detectedProject,
                    IF Truthy(detectedProject)
                    THEN ix.projectsByName[detectedProject] ELSE null,
                    ix)]

ApplyBuildGroundedContext ==
    /\ fnIn.fn = "none"
    /\ \E k \in KBs, detectedProject \in NameSet(extractProjectNames) \cup {null} :
          /\ fnIn' = [fn |-> "buildGroundedContext", kb |-> k,
                      detectedProject |-> detectedProject]
          /\ fnOut' = ContextFor(k, detectedProject, buildIndexes(k))
    /\ UNCHANGED <<pc, req, kb, idx, det, calls, res, provider, lastKbDebug, inflight, img>>

NextIndex ==
    \/ ApplyBuildIndexes
    \/ ApplyBuildIndexesTwice
    \/ ApplyExtractProjectBlock
    \/ ApplyBuildGroundedContext

SpecIndex == Init /\ [][NextIndex]_vars

(***************************************************************************)
(* The handler of src/unnamed/part_003 serving POST requests of an allowed *)
(* origin at the same time.  loadKnowledge writes its trace to the         *)
(* module-level lastKbDebug and the handler is suspended at each await;    *)
(* "own" is a history variable: the trace of the request's own load.       *)
(***************************************************************************)
KnowledgeUrl == "https://kb.example/knowledge.json"

DebugInputs == {"", "__debug_kb__", "how do I build the mood lamp?"}

\* the bodies the KB URL serves: a document and a truncated one
KbBodies == {"{\"pages\":[]}", "{\"pages\":["}

Parses(txt) == txt = "{\"pages\":[]}"

OfRequest(r, fields) == [inflight EXCEPT ![r] = fields]

\* part_003:465-500 and 67-77: the input check, then loadKnowledge up to the
\* fetch of the KB
StartRequest(r) ==
    /\ inflight[r].pc = "idle"
    /\ \E userInput \in DebugInputs :
          IF Trim(userInput) = ""
          THEN /\ inflight' = OfRequest(r, [inflight[r] EXCEPT
                        !.pc = "done", !.status = 400])
               /\ UNCHANGED lastKbDebug
          ELSE IF KnowledgeUrl = ""
          THEN /\ lastKbDebug' = "env.KNOWLEDGE_URL=" \o " | no URL set"
               /\ inflight' = OfRequest(r, [inflight[r] EXCEPT
                        !.pc = "loaded", !.userInput = Trim(userInput),
                        !.own = "env.KNOWLEDGE_URL=" \o " | no URL set"])
          ELSE /\ lastKbDebug' = "env.KNOWLEDGE_URL=" \o KnowledgeUrl
               /\ inflight' = OfRequest(r, [inflight[r] EXCEPT
                        !.pc = "fetch", !.userInput = Trim(userInput),
                        !.own = "env.KNOWLEDGE_URL=" \o KnowledgeUrl])
    /\ UNCHANGED <<pc, req, kb, idx, det, calls, res, provider, fnIn, fnOut, img>>

Traced(r, next, note) ==
    /\ lastKbDebug' = lastKbDebug \o note
    /\ inflight' = OfRequest(r, [inflight[r] EXCEPT
                        !.pc = next, !.own = @ \o note])

\* part_003:77-83, 90-93: the fetch of the KB settles
KbFetchSettles(r) ==
    /\ inflight[r].pc = "fetch"
    /\ \E outcome \in {"rejected", "not ok", "ok"} :
          IF outcome = "rejected"
          THEN Traced(r, "loaded", " | error=TypeError: fetch failed")
          ELSE IF outcome = "not ok"
          THEN Traced(r, "loaded", " | fetchStatus=500" \o " | fetchNotOk")
          ELSE Traced(r, "text", " | fetchStatus=200")
    /\ UNCHANGED <<pc, req, kb, idx, det, calls, res, provider, fnIn, fnOut, img>>

\* part_003:85-93: the body of the KB response is read and parsed
KbTextSettles(r) ==
    /\ inflight[r].pc = "text"
    /\ \E txt \in KbBodies :
          /\ lastKbDebug' =
                lastKbDebug \o " | bodyLength=" \o ToString(Len(txt))
                \o (IF Parses(txt) THEN " | jsonParsedOk"
                    ELSE " | error=SyntaxError: Unexpected end of JSON input")
          /\ inflight' = OfRequest(r, [inflight[r] EXCEPT
                !.pc = "loaded", !.hasKb = Parses(txt),
                !.own = @ \o " | bodyLength=" \o ToString(Len(txt))
                    \o (IF Parses(txt) THEN " | jsonParsedOk"
                        ELSE " | error=SyntaxError: Unexpected end of JSON input")])
    /\ UNCHANGED <<pc, req, kb, idx, det, calls, res, provider, fnIn, fnOut, img>>

\* part_003:500-543: the handler resumes after loadKnowledge; the debug
\* request is answered with hasKb and lastKbDebug, any other request goes on
\* to the rest of the handler, which does not read lastKbDebug
KbLoaded(r) ==
    /\ inflight[r].pc = "loaded"
    /\ IF inflight[r].userInput = "__debug_kb__"
       THEN inflight' = OfRequest(r, [inflight[r] EXCEPT
                !.pc = "done", !.status = 200,
                !.text = [hasKb |-> inflight[r].hasKb,
                          lastKbDebug |-> OrElse(lastKbDebug, "EMPTY")]])
       ELSE inflight' = OfRequest(r, [inflight[r] EXCEPT !.pc = "rest"])
    /\ UNCHANGED <<pc, req, kb, idx, det, calls, res, provider, fnIn, fnOut,
                   lastKbDebug, img>>

\* part_003:545 to the end of the handler
RestSettles(r) ==
    /\ inflight[r].pc = "rest"
    /\ \E status \in {200, 500} :
          inflight' = OfRequest(r, [inflight[r] EXCEPT
                !.pc = "done", !.status = status])
    /\ UNCHANGED <<pc, req, kb, idx, det, calls, res, provider, fnIn, fnOut,
                   lastKbDebug, img>>

(***************************************************************************)
(* The handler of src/api/generate-image.js.  It is suspended at the       *)
(* prompt-enhancer call and at the image-generation call.                  *)
(***************************************************************************)
WorksheetWords ==
    {"worksheet", "printable", "sheet", "activity", "mcq", "quiz", "match",
     "timeline", "cause", "effect", "compare", "critical thinking", "a4",
     "handout", "classroom"}

looksLikeWorksheet(prompt) ==
    \E w \in WorksheetWords : Includes(ToLowerCase(prompt), w)

\* the ellipsis character the code appends is written "..."
clampText(text, maxChars) ==
    IF Len(Trim(text)) <= maxChars THEN Trim(text)
    ELSE SubSeq(Trim(text), 1, maxChars - 1) \o "..."

isProbablyTooLongForServerless(prompt) == Len(prompt) > 6000

\* req.body.prompt: absent or blank, short ones, and one above the limit
ImagePrompts ==
    { "", "   ", "a robot cat", " a worksheet about volcanoes ",
      "a poster of the solar system", "a quiz on magnets",
      Repeated("draw a friendly volcano ", 260) }

\* what the enhancer writes: nothing, blanks, a prompt
EnhancerOutputs ==
    { "", "  ", " A clean vector illustration for children, bright solid colours. " }

ImageRespond(status, message) ==
    [img EXCEPT !.pc = "done", !.status = status, !.message = message]

EnhancerCall(userPrompt) ==
    [to |-> "enhancer", prompt |-> clampText(userPrompt, 2500)]

\* generate-image.js:166-203: the checks of the request, then the call of
\* the prompt enhancer
ImageStarted(userPromptRaw) ==
    [img EXCEPT
        !.pc = "enhance",
        !.isWorksheet = looksLikeWorksheet(userPromptRaw),
        !.userPrompt = IF isProbablyTooLongForServerless(userPromptRaw)
                       THEN clampText(userPromptRaw, 5500) ELSE userPromptRaw,
        !.calls = <<EnhancerCall(IF isProbablyTooLongForServerless(userPromptRaw)
                                 THEN clampText(userPromptRaw, 5500)
                                 ELSE userPromptRaw)>>]

ImageReceive ==
    /\ img.pc = "idle"
    /\ \E method \in {"OPTIONS", "GET", "POST"}, originAllowed \in BOOLEAN,
          prompt \in ImagePrompts, apiKey \in BOOLEAN :
          img' = IF method = "OPTIONS" THEN ImageRespond(204, null)
                 ELSE IF ~originAllowed THEN ImageRespond(403, "Forbidden origin")
                 ELSE IF method # "POST" THEN ImageRespond(405, "Method not allowed")
                 ELSE IF Trim(prompt) = "" THEN ImageRespond(400, "Prompt is required")
                 ELSE IF ~apiKey THEN ImageRespond(500, "Missing OPENAI_API_KEY")
                 ELSE ImageStarted(Trim(prompt))
    /\ UNCHANGED <<pc, req, kb, idx, det, calls, res, provider, fnIn, fnOut,
                   lastKbDebug, inflight>>

\* line 206: enhanced.ok && enhanced.prompt ? enhanced.prompt : userPrompt
FinalPrompt(enhanced, userPrompt) ==
    IF enhanced.ok /\ Truthy(enhanced.prompt) THEN enhanced.prompt ELSE userPrompt

\* lines 208-227: the image-generation call
ImageCalled(outcome, enhanced) ==
    [img EXCEPT
        !.pc = "image", !.enhancer = outcome, !.enhanced = enhanced,
        !.calls = Append(@, [to |-> "image",
                             prompt |-> FinalPrompt(enhanced, img.userPrompt)])]

\* lines 71-80, 111-164, 203-227, 267-272: the enhancer call settles.  A
\* rejected fetch and the abort of the 45 s timer make fetchWithTimeout
\* throw; enhancePrompt catches nothing, the handler's catch answers.
EnhancerSettles ==
    /\ img.pc = "enhance"
    /\ \E outcome \in {"rejected", "aborted", "not ok", "unreadable", "ok"} :
          IF outcome \in {"rejected", "aborted"}
          THEN img' = [ImageRespond(500, "Server error") EXCEPT !.enhancer = outcome]
          ELSE IF outcome \in {"not ok", "unreadable"}
          THEN img' = ImageCalled(outcome, [ok |-> FALSE, prompt |-> null])
          ELSE \E out \in EnhancerOutputs :
                  img' = IF Trim(out) = ""
                         THEN ImageCalled("empty", [ok |-> FALSE, prompt |-> null])
                         ELSE ImageCalled("ok", [ok |-> TRUE,
                                                 prompt |-> clampText(Trim(out), 3500)])
    /\ UNCHANGED <<pc, req, kb, idx, det, calls, res, provider, fnIn, fnOut,
                   lastKbDebug, inflight>>

\* lines 214-272: the image-generation call settles
ImageSettles ==
    /\ img.pc = "image"
    /\ \E outcome \in {"rejected", "aborted", "not ok", "no image", "ok"} :
          img' = IF outcome \in {"rejected", "aborted"}
                 THEN ImageRespond(500, "Server error")
                 ELSE IF outcome = "not ok" THEN ImageRespond(400, "Image API error")
                 ELSE IF outcome = "no image" THEN ImageRespond(500, "No image returned")
                 ELSE ImageRespond(200, null)
    /\ UNCHANGED <<pc, req, kb, idx, det, calls, res, provider, fnIn, fnOut,
                   lastKbDebug, inflight>>

NextImage == ImageReceive \/ EnhancerSettles \/ ImageSettles

SpecImage == Init /\ [][NextImage]_vars

NextDebug ==
    \E r \in Requests :
        \/ StartRequest(r)
        \/ KbFetchSettles(r)
        \/ KbTextSettles(r)
        \/ KbLoaded(r)
        \/ RestSettles(r)

SpecDebug == Init /\ [][NextDebug]_vars

(***************************************************************************)
(* Properties of the detection functions, under SpecDetect.                *)
(***************************************************************************)
HasWordOf(text, words) == \E w \in words : Includes(ToLowerCase(text), w)

\* C2: detectSupportFailure on a text with both damage language and
\* missing-part language, such as "my motor is broken and missing", returns
\* PART_MISSING, the missing-part check coming before the damage check, and
\* never HARDWARE_DAMAGED; a text that also asks for contact is a support
\* request.
C2_MissingBeforeDamage ==
    (/\ fnIn.fn = "detectSupportFailure"
     /\ HasWordOf(fnIn.userText, DamageWords)
     /\ HasWordOf(fnIn.userText, MissingWords))
    => fnOut = (IF HasWordOf(fnIn.userText, SupportWords)
                THEN "USER_REQUESTED_SUPPORT" ELSE "PART_MISSING")

C2_Witness ==
    /\ fnIn.fn = "detectSupportFailure"
    /\ fnIn.userText = "my motor is broken and missing"
    /\ fnOut = "PART_MISSING"

\* C2 as the specification words it: a text with "broken" and "missing"
\* classifies as HARDWARE_DAMAGED
C2_DamageBeforeMissing ==
    (/\ fnIn.fn = "detectSupportFailure"
     /\ Includes(ToLowerCase(fnIn.userText), "broken")
     /\ Includes(ToLowerCase(fnIn.userText), "missing"))
    => fnOut = "HARDWARE_DAMAGED"

\* the checks of detectSupportFailure that match its input, in their order
ChecksMatching(in) ==
    (IF HasWordOf(in.userText, SupportWords)
     THEN <<"USER_REQUESTED_SUPPORT">> ELSE <<>>)
    \o (IF HasWordOf(in.userText, MissingWords)
        THEN <<"PART_MISSING">> ELSE <<>>)
    \o (IF HasWordOf(in.userText, DamageWords)
        THEN <<"HARDWARE_DAMAGED">> ELSE <<>>)
    \o (IF /\ HasWordOf(in.userText, HardwareWords)
           /\ in.detectedComponent = null
           /\ in.detectedProject = null
        THEN <<"UNKNOWN_COMPONENT">> ELSE <<>>)
    \o (IF in.detectedProject # null /\ in.projectContext = null
        THEN <<"PROJECT_NOT_IN_KB">> ELSE <<>>)

\* C23: detectSupportFailure returns the reason of the first check that
\* matches in the fixed order USER_REQUESTED_SUPPORT, PART_MISSING,
\* HARDWARE_DAMAGED, UNKNOWN_COMPONENT, PROJECT_NOT_IN_KB, and none when no
\* check matches; never a later reason when an earlier check matches.
C23_FirstMatchingCheck ==
    fnIn.fn = "detectSupportFailure"
    => fnOut = (IF ChecksMatching(fnIn) = <<>> THEN null
                ELSE Head(ChecksMatching(fnIn)))

C23_Witness ==
    /\ fnIn.fn = "detectSupportFailure"
    /\ Len(ChecksMatching(fnIn)) > 1
    /\ ChecksMatching(fnIn)[1] = "HARDWARE_DAMAGED"
    /\ ChecksMatching(fnIn)[2] = "UNKNOWN_COMPONENT"
    /\ fnOut = "HARDWARE_DAMAGED"

\* v is what Detect yields on the most recent turn of the history that has
\* content and on which Detect yields something; null when there is none
IsMostRecent(history, Detect(_), v) ==
    IF v = null
    THEN \A i \in 1..Len(history) :
            history[i].content = "" \/ Detect(history[i].content) = null
    ELSE \E i \in 1..Len(history) :
            /\ history[i].content # ""
            /\ Detect(history[i].content) = v
            /\ \A j \in (i + 1)..Len(history) :
                  history[j].content = "" \/ Detect(history[j].content) = null

\* C25: resolveContextFromHistory returns as lastProject, respectively
\* lastComponent, what detectProject, respectively detectComponent, yields
\* on the most recent turn with content on which it yields something, and
\* none when no turn yields one; turns without content are skipped and an
\* older turn never decides once a more recent one did.
C25_MostRecentTurnDecides ==
    fnIn.fn = "resolveContextFromHistory"
    => /\ IsMostRecent(fnIn.history,
                       LAMBDA t : detectProject(t, extractProjectNames),
                       fnOut.lastProject)
       /\ IsMostRecent(fnIn.history,
                       LAMBDA t : detectComponent(t, fnIn.componentsMap),
                       fnOut.lastComponent)

C25_Witness ==
    /\ fnIn.fn = "resolveContextFromHistory"
    /\ Len(fnIn.history) = 2
    /\ fnIn.history[1].content = "The Candle Lamp glows with an LDR sensor and a potentiometer knob."
    /\ fnIn.history[2].content = "tell me about Mood Lamp"
    /\ fnOut.lastProject = "Mood Lamp"
    /\ fnOut.lastComponent = "potentiometer"

\* two characters that are one letter in its two cases
CaseTwin(a, b) ==
    \E i \in 1..26 : {a, b} = {CharAt(UpperAlpha, i), CharAt(LowerAlpha, i)}

\* the same text up to letter case
SameLetters(s, t) ==
    /\ Len(s) = Len(t)
    /\ \A k \in 1..Len(s) :
          CharAt(s, k) = CharAt(t, k) \/ CaseTwin(CharAt(s, k), CharAt(t, k))

\* C6: for every name P of the canonical list, detectProject of P, in any
\* letter case, is P, whatever the other names score.
C6_ExactMatchPriority ==
    fnIn.fn = "detectProject" =>
        \A i \in 1..Len(extractProjectNames) :
            SameLetters(fnIn.text, extractProjectNames[i])
            => fnOut = extractProjectNames[i]

C6_Witness ==
    /\ fnIn.fn = "detectProject"
    /\ fnIn.text = "THE FRUIT GAME"
    /\ fnOut = "The Fruit Game"

\* the words a text shares with a name
SharedWords(text, name) ==
    CountMatched(Words(ToLowerCase(name)), Words(Trim(ToLowerCase(text))))

\* no name is in the text, with or without its blanks and punctuation
NamesNoProject(text) ==
    \A i \in 1..Len(extractProjectNames) :
        ~Includes(Simplify(ToLowerCase(text)),
                  Simplify(ToLowerCase(extractProjectNames[i])))

\* C7: detectProject returns none for every text that names no project and
\* shares at most one word with any project name.
C7_ThresholdRejection ==
    (/\ fnIn.fn = "detectProject"
     /\ NamesNoProject(fnIn.text)
     /\ \A i \in 1..Len(extractProjectNames) :
           SharedWords(fnIn.text, extractProjectNames[i]) <= 1)
    => fnOut = null

\* the text has the name of a canonical project, in any letter case
HasProjectName(text) ==
    \E i \in 1..Len(extractProjectNames) :
        Includes(ToLowerCase(text), ToLowerCase(extractProjectNames[i]))

\* C12: detectIntent never returns KIT_OVERVIEW for a text that has the name
\* of a known project, whichever kit-overview pattern the text matches.
C12_NoKitOverviewWithProject ==
    (fnIn.fn = "detectIntent" /\ HasProjectName(fnIn.text))
    => fnOut # "KIT_OVERVIEW"

\* the text has the name of a component of the map, in any letter case
HasComponentName(text, componentsMap) ==
    \E i \in 1..Len(componentsMap) :
        /\ componentsMap[i].name # ""
        /\ Includes(ToLowerCase(text), ToLowerCase(componentsMap[i].name))

\* C13: detectIntent never returns COMPONENT_INFO for a text that has the
\* name of a known project, also when the text names a known component and
\* asks for an explanation.
C13_NoComponentInfoWithProject ==
    (fnIn.fn = "detectIntent" /\ HasProjectName(fnIn.text))
    => fnOut # "COMPONENT_INFO"

C13_Witness ==
    /\ fnIn.fn = "detectIntent"
    /\ fnIn.text = "how does the potentiometer work in Mood Lamp"
    /\ HasComponentName(fnIn.text, fnIn.componentsMap)
    /\ fnOut = "GENERAL"

(***************************************************************************)
(* Properties of the index and of the grounded context, under SpecIndex.   *)
(***************************************************************************)
\* the lines of a text
RECURSIVE LinesFrom(_, _)
LinesFrom(s, i) ==
    IF NextNewline(s, i) = 0 THEN <<SubSeq(s, i, Len(s))>>
    ELSE <<SubSeq(s, i, NextNewline(s, i) - 1)>> \o LinesFrom(s, NextNewline(s, i) + 1)

\* the lines that begin with the mark, without it
Marked(lines, mark) ==
    LET IsMarked(l) == StartsWith(l, mark)
        found == SelectSeq(lines, IsMarked)
    IN  [i \in 1..Len(found) |-> SubSeq(found[i], Len(mark) + 1, Len(found[i]))]

LessonNames(lessons) == [i \in 1..Len(lessons) |-> lessons[i].lessonName]

ProjectHeads(ctx) == {k \in 1..Len(ctx) : LitAt(ctx, k, "=== PROJECT: ")}

LessonHeads(ctx) == {k \in 1..Len(ctx) : LitAt(ctx, k, "=== LESSONS FOR ")}

\* the lessons the context lists under its lessons heading
ListedLessons(ctx) ==
    IF LessonHeads(ctx) = {} THEN <<>>
    ELSE Marked(Tail(LinesFrom(ctx, MinOf(LessonHeads(ctx)))), "- ")

FocusOf(A, block, lessons, ctx) ==
    /\ Cardinality(ProjectHeads(ctx)) = 1
    /\ \A k \in ProjectHeads(ctx) :
          LitAt(ctx, k, "=== PROJECT: " \o A \o " ===\n" \o block)
    /\ Cardinality(LessonHeads(ctx)) = (IF Len(lessons) = 0 THEN 0 ELSE 1)
    /\ \A k \in LessonHeads(ctx) :
          LitAt(ctx, k, "=== LESSONS FOR " \o A \o " ===\n")
    /\ ListedLessons(ctx) = LessonNames(lessons)

Topics == <<"connection", "build", "coding", "working", "intro">>

TopicRank(lessonName) ==
    LET at == MinOf({i \in 1..Len(Topics) :
                        Includes(ToLowerCase(lessonName), Topics[i])})
    IN  IF at = 0 THEN Len(Topics) + 1 ELSE at

PositionIn(lessons, e) == MinOf({i \in 1..Len(lessons) : lessons[i] = e})

RankedStably(extracted, indexed) ==
    /\ Len(indexed) = Len(extracted)
    /\ \A i \in 1..Len(extracted) : PositionIn(indexed, extracted[i]) > 0
    /\ \A i, j \in 1..Len(indexed) :
          i < j =>
            /\ TopicRank(indexed[i].lessonName) <= TopicRank(indexed[j].lessonName)
            /\ TopicRank(indexed[i].lessonName) = TopicRank(indexed[j].lessonName)
               => PositionIn(extracted, indexed[i]) < PositionIn(extracted, indexed[j])

\* C8: for every project, lessonsByProject[project] as buildIndexes builds
\* it holds the extracted lessons in non-decreasing topical rank, whatever
\* their order in the KB, lessons of one rank in their order of extraction.
C8_LessonOrdering ==
    fnIn.fn = "buildIndexes" =>
        \A n \in DOMAIN fnOut.lessonsByProject :
            RankedStably(fnOut.extracted[n], fnOut.lessonsByProject[n])

C8_Witness ==
    /\ fnIn.fn = "buildIndexes"
    /\ LessonNames(fnOut.extracted["Mood Lamp"])
          = <<"Intro", "Build the shade", "Build the lamp">>
    /\ LessonNames(fnOut.lessonsByProject["Mood Lamp"])
          = <<"Build the shade", "Build the lamp", "Intro">>

\* the links of a record: trimmed, without the empty ones, each once
DistinctLinks(r) == uniq(TrimAll(r.urls))

RECURSIVE LinksOfRecords(_, _, _)
LinksOfRecords(lessons, i, n) ==
    IF i > Len(lessons) THEN <<>>
    ELSE (IF lessons[i].project = n THEN DistinctLinks(lessons[i]) ELSE <<>>)
         \o LinksOfRecords(lessons, i + 1, n)

EntryLinks(entries) == [i \in 1..Len(entries) |-> entries[i].videoLinks[1]]

Distinct(seq) == \A i, j \in 1..Len(seq) : seq[i] = seq[j] => i = j

\* C9: of the structured records of a project extractLessons makes one
\* entry per distinct link of each record, in the order of the links, and
\* no entry whose link is empty.
C9_OneEntryPerLink ==
    (/\ fnIn.fn = "buildIndexes"
     /\ Len(fnIn.kb.lessons) > 0
     /\ Distinct(fnIn.kb.lessons))
    => \A n \in DOMAIN fnOut.extracted :
          /\ \A i \in 1..Len(fnOut.extracted[n]) :
                /\ Len(fnOut.extracted[n][i].videoLinks) = 1
                /\ fnOut.extracted[n][i].videoLinks[1] # ""
          /\ EntryLinks(fnOut.extracted[n]) = LinksOfRecords(fnIn.kb.lessons, 1, n)

(***************************************************************************)
(* Properties of the handler, under Spec.                                  *)
(***************************************************************************)
\* the requests sent to the text-generation provider so far
GenerationCalls == {i \in 1..Len(calls) : calls[i] \in {"planner", "answer"}}

\* C3: a request classified KIT_OVERVIEW, COMPONENTS_LIST or PROJECT_VIDEOS,
\* or classified LIST_PROJECTS with no project detected in its text, is
\* answered from the KB alone: the response follows the KB fetch and neither
\* the planner call nor the answer call is sent.
C3_DeterministicBypass ==
    (\/ det.rawIntent \in {"KIT_OVERVIEW", "COMPONENTS_LIST", "PROJECT_VIDEOS"}
     \/ det.rawIntent = "LIST_PROJECTS" /\ det.rawDetectedProject = null)
    => /\ pc = "done"
       /\ calls = <<"kb">>
       /\ res.status = 200
       /\ res.text # null

C3_Witness ==
    /\ pc = "done"
    /\ det.rawIntent = "LIST_PROJECTS"
    /\ det.rawDetectedProject = null
    /\ res.kbMode = "deterministic"
    /\ GenerationCalls = {}

\* C3 as the specification words it: no request of a deterministic intent,
\* LIST_PROJECTS included, reaches the provider
C3_NoGenerationForListedIntents ==
    det.rawIntent \in {"KIT_OVERVIEW", "COMPONENTS_LIST", "LIST_PROJECTS",
                       "PROJECT_VIDEOS"}
    => GenerationCalls = {}

\* C4: when the support-escalation message is the answer, no request was
\* sent to the text-generation provider at any earlier step.
C4_SupportBypassesGeneration ==
    res.supportTriggered => GenerationCalls = {}

\* the project of the most recent turn, of the first i, that mentions one
RECURSIVE LastNamed(_, _)
NamedOrEarlier(history, i, named) ==
    IF named # null THEN named ELSE LastNamed(history, i - 1)

LastNamed(history, i) ==
    IF i < 1 THEN null
    ELSE IF history[i].content = "" THEN LastNamed(history, i - 1)
    ELSE NamedOrEarlier(history, i,
             detectProject(history[i].content, extractProjectNames))

CarriedOver(P) ==
    /\ det.detectedProject = P
    /\ Includes(det.groundedContext,
                "=== PROJECT: " \o P \o " ===\n" \o idx.projectsByName[P])

RECURSIVE ParseVideos(_, _, _)
ParseVideos(lines, i, acc) ==
    IF i > Len(lines) THEN acc
    ELSE IF StartsWith(lines[i], ToString(Len(acc) + 1) \o ". ")
    THEN ParseVideos(lines, i + 1,
             Append(acc, [lessonName |->
                              SubSeq(lines[i],
                                     Len(ToString(Len(acc) + 1)) + 3,
                                     Len(lines[i])),
                          videoLinks |-> <<>>]))
    ELSE IF Len(acc) > 0 /\ StartsWith(lines[i], "- ")
    THEN ParseVideos(lines, i + 1,
             [acc EXCEPT ![Len(acc)].videoLinks =
                             Append(@, SubSeq(lines[i], 3, Len(lines[i])))])
    ELSE ParseVideos(lines, i + 1, acc)

NamesAndLinks(lessons) ==
    [i \in 1..Len(lessons) |->
        [lessonName |-> lessons[i].lessonName, videoLinks |-> lessons[i].videoLinks]]

\* C10: the reply to a PROJECT_VIDEOS request whose text names a project P
\* with lessons in the index lists the lessons of lessonsByProject[P], in
\* the order of the index, each with all its links, and kbMode is
\* "deterministic".
C10_ProjectVideosReply ==
    (/\ pc = "done"
     /\ det.rawIntent = "PROJECT_VIDEOS"
     /\ Truthy(det.rawDetectedProject)
     /\ Len(idx.lessonsByProject[det.rawDetectedProject]) > 0)
    => /\ res.status = 200
       /\ res.kbMode = "deterministic"
       /\ res.lessonsReturned = Len(idx.lessonsByProject[det.rawDetectedProject])
       /\ StartsWith(res.text,
                     "Lesson videos for " \o det.rawDetectedProject \o ":\n\n1. ")
       /\ ParseVideos(LinesFrom(res.text, 1), 1, <<>>)
             = NamesAndLinks(idx.lessonsByProject[det.rawDetectedProject])

C10_Witness ==
    /\ pc = "done"
    /\ det.rawIntent = "PROJECT_VIDEOS"
    /\ det.rawDetectedProject = "Mood Lamp"
    /\ Len(idx.lessonsByProject["Mood Lamp"]) = 2
    /\ \E i \in 1..2 : Len(idx.lessonsByProject["Mood Lamp"][i].videoLinks) = 2
    /\ res.kbMode = "deterministic"

SupportChecked == det.plannedUserText # null /\ req.messages # "json null"

\* a reason was returned, support is enabled in the KB and lists the reason
ReasonListed ==
    /\ det.supportReason # null
    /\ idx.supportConfig.enabled
    /\ \E i \in 1..Len(idx.supportConfig.show_when) :
          idx.supportConfig.show_when[i] = det.supportReason

BodyRead == pc \in {"kb", "planner", "answer", "done"} /\ res.status \notin {204, 403, 405}

OnlyBlanks(s) == \A k \in 1..Len(s) : CharAt(s, k) \in {" ", "\t", "\n", "\r"}

\* C15: a request whose message is empty after trimming and that has no
\* attachment is answered with the client error 400; no KB fetch, planner
\* call or answer call was made for it.
C15_EmptyRequestRejected ==
    (BodyRead /\ OnlyBlanks(req.body) /\ ~req.hasFile)
    => /\ pc = "done"
       /\ res.status = 400
       /\ res.error = "Please type a message or upload an image to continue"
       /\ res.text = null
       /\ calls = <<>>

C15_Witness ==
    /\ pc = "done"
    /\ req.body = "   "
    /\ ~req.hasFile
    /\ res.status = 400
    /\ calls = <<>>

\* C16: a request whose history is malformed (a string that is not JSON, or
\* a value that is not a list of turns) is answered with a client input
\* error, and no planner call or answer call is made for it.
C16_MalformedHistoryRejected ==
    (pc = "done" /\ req.messages \in {"bad json", "json null", "json object"})
    => /\ res.status = 400
       /\ GenerationCalls = {}

\* C17: when the answer call returns a non-success response the handler
\* replies with the status 500 and the error "OpenAI API error", with an
\* excerpt of at most 800 characters of what the provider said; it sends no
\* text and no success status for that request.
C17_GenerationErrorSurfaced ==
    provider.outcome = "not ok"
    => /\ pc = "done"
       /\ res.status = 500
       /\ res.error = "OpenAI API error"
       /\ res.text = null
       /\ Len(res.details) <= 800
       /\ IF provider.body = null THEN res.details = ""
          ELSE /\ res.details = SubSeq(provider.body, 1, Len(res.details))
               /\ Len(provider.body) <= 800 => res.details = provider.body
               /\ Len(provider.body) > 800 => Len(res.details) = 800

C17_Witness ==
    /\ pc = "done"
    /\ provider.outcome = "not ok"
    /\ provider.body # null
    /\ Len(provider.body) > 800
    /\ res.status = 500
    /\ Len(res.details) = 800

\* C18: for every KB document that parses as JSON, whatever optional sections
\* are missing or ill-typed, index building completes without raising: once
\* the document is fetched and parsed the request is answered with the
\* indexes built.
C18_ParseableKbNeverFatal ==
    (pc = "done" /\ kb # KBEmpty) => "projectNames" \in DOMAIN idx

\* C19: requests are independent: under any interleaving of two requests
\* handled at the same time the response to each depends only on its own
\* input and the KB it fetched; the load trace a debug response reports is
\* the trace of that request's own load.
C19_RequestsIndependent ==
    \A r \in Requests :
        (inflight[r].pc = "done" /\ inflight[r].userInput = "__debug_kb__")
        => inflight[r].text.lastKbDebug = inflight[r].own

\* the final project and component are decided: the handler went past
\* the history resolution
FinalDecided ==
    /\ det.plannedUserText # null
    /\ req.messages # "json null"

CurrentWins(first, second, final) ==
    IF first # null THEN final = first
    ELSE second # null => final = second

\* C24: the history resolver is only a fallback: whenever the text of the
\* current turn (as typed, or as the planner rewrote it) yields a project,
\* respectively a component, the final detected project, respectively
\* component, is the one of the current turn and never the one recovered
\* from the history.
C24_HistoryOnlyFallback ==
    FinalDecided
    => /\ CurrentWins(det.rawDetectedProject, det.plannedProject,
                      det.detectedProject)
       /\ CurrentWins(det.plannedComponent, det.rawDetectedComponent,
                      det.detectedComponent)

C24_Witness ==
    /\ FinalDecided
    /\ det.rawDetectedProject = null
    /\ det.plannedProject = null
    /\ det.rawDetectedComponent = "dc_motor"
    /\ det.lastProject = "Candle Lamp"
    /\ det.lastComponent = "potentiometer"
    /\ det.detectedProject = "Candle Lamp"
    /\ det.detectedComponent = "dc_motor"

\* the external calls of one request, each once and in this order; the
\* planner is left out for a request with a file
CallOrders ==
    { <<>>, <<"kb">>, <<"kb", "planner">>, <<"kb", "answer">>,
      <<"kb", "planner", "answer">> }

\* C28: within one request the KB fetch, the planner call and the answer
\* call are each issued at most once, in that order, and a call that failed
\* is never issued again; after a failed KB fetch or a failed answer call
\* the request is over with no further external call.
C28_NoRetry ==
    /\ calls \in CallOrders
    /\ (calls # <<>> /\ pc = "done" /\ kb = KBEmpty /\ "built" \in DOMAIN idx)
       => calls = <<"kb">>
    /\ provider.outcome \in {"rejected", "not ok"}
       => pc = "done" /\ calls \in {<<"kb", "answer">>, <<"kb", "planner", "answer">>}

C28_Witness ==
    /\ pc = "done"
    /\ calls = <<"kb", "planner", "answer">>
    /\ det.plannedUserText = det.rawUserText
    /\ provider.outcome = "not ok"
    /\ res.status = 500

\* C29: every request runs to completion or failure with one HTTP response:
\* for every outcome of the upload parse, the KB fetch and the provider
\* calls, each of them settling, the handler eventually sends a response.
C29_AlwaysResponds == <>(pc = "done" /\ res.status # NoResponse.status)

(***************************************************************************)
(* The project names of the index, under SpecIndex.                        *)
(***************************************************************************)
BuiltInNames ==
    << "Hello World!", "Mood Lamp", "Game Controller", "Coin Counter",
       "Smart Box", "Musical Instrument", "Toll Booth", "Analog Meter",
       "DJ Nights", "Roll The Dice", "Table Fan", "Disco Lights",
       "Motion Activated Wave Sensor", "RGB Color Mixer", "The Fruit Game",
       "The Ping Pong Game", "The UFO Shooter Game", "The Extension Wire",
       "Light Intensity Meter", "Pulley LED", "Candle Lamp" >>

ListedNames(k) == uniq([i \in 1..Len(k.projects) |-> k.projects[i].name])

\* C20 (as the code has it): the projectNames returned by buildIndexes are
\* the 21 built-in names in their fixed order whatever the KB holds; a
\* project list of the KB is not used for them.
C20_BuiltInNamesAlways ==
    fnIn.fn = "buildIndexes" => fnOut.projectNames = BuiltInNames

C20_Witness ==
    /\ fnIn.fn = "buildIndexes"
    /\ ListedNames(fnIn.kb) = <<"Line Follower", "Candle Lamp">>
    /\ fnOut.projectNames = BuiltInNames

\* C20 (as stated): when the KB supplies an explicit project list the
\* projectNames returned by buildIndexes equal that list, in its order,
\* without duplicates; the built-in list is used only when the KB supplies
\* no names.
C20_KbListUsedVerbatim ==
    (fnIn.fn = "buildIndexes" /\ Len(fnIn.kb.projects) > 0)
    => fnOut.projectNames = ListedNames(fnIn.kb)

(***************************************************************************)
(* The grounded context without a project, under SpecIndex.                *)
(***************************************************************************)
AsksForProjectName(context) ==
    \/ Includes(ToLowerCase(context), "exact project name")
    \/ Includes(ToLowerCase(context), "which project")

\* C21: whenever no project is detected, the grounded context built by
\* buildGroundedContext contains an instruction telling the generator to ask
\* the user for the exact project name rather than guess.
C21_AsksForProjectName ==
    (fnIn.fn = "buildGroundedContext" /\ ~Truthy(fnIn.detectedProject))
    => AsksForProjectName(fnOut.context)

C26_SafetyNotesAlways ==
    fnIn.fn = "buildGroundedContext"
    => /\ Includes(fnOut.context,
                   "- The system uses low voltage (5V from USB), so there is no risk of electric shock.")
       /\ Includes(fnOut.context,
                   "- However, always handle components gently to avoid physical damage.")

(***************************************************************************)
(* The block of a project, under SpecIndex.                                *)
(***************************************************************************)
\* the pages of the document that are of the project: typed as its page, or
\* with "project name" and the name in their text
PagesOf(k, projectName) ==
    {i \in 1..Len(k.pages) :
        \/ /\ k.pages[i].type = "project"
           /\ ToLowerCase(k.pages[i].projectName) = ToLowerCase(projectName)
        \/ /\ Includes(ToLowerCase(k.pages[i].text), "project name")
           /\ Includes(ToLowerCase(k.pages[i].text), ToLowerCase(projectName))}

HasRecord(k, projectName) ==
    \E i \in 1..Len(k.projects) : k.projects[i].name = projectName

RecordOf(k, projectName) ==
    k.projects[CHOOSE i \in 1..Len(k.projects) :
                  /\ k.projects[i].name = projectName
                  /\ \A j \in 1..(i - 1) : k.projects[j].name # projectName]

OpeningOf(text) == SubSeq(text, 1, IF Len(text) < 20 THEN Len(text) ELSE 20)

\* C27 (as the code has it): for a project with a page in the KB the block
\* is taken from the pages, whether or not the KB also has a structured
\* record of the project; the structured record is rendered only when no
\* page is of the project, and the block is empty when there is neither.
C27_PagesBeforeRecord ==
    fnIn.fn = "extractProjectBlock"
    => IF fnIn.kb.hasPages /\ PagesOf(fnIn.kb, fnIn.projectName) # {}
       THEN \E i \in PagesOf(fnIn.kb, fnIn.projectName) :
               /\ Includes(fnOut, OpeningOf(fnIn.kb.pages[i].text))
               /\ ~Includes(fnOut, "Components Used:\n")
       ELSE IF HasRecord(fnIn.kb, fnIn.projectName)
       THEN fnOut = StructuredBlock(RecordOf(fnIn.kb, fnIn.projectName))
       ELSE fnOut = ""

C27_Witness ==
    /\ fnIn.fn = "extractProjectBlock"
    /\ fnIn.projectName = "Mood Lamp"
    /\ HasRecord(fnIn.kb, "Mood Lamp")
    /\ PagesOf(fnIn.kb, "Mood Lamp") # {}
    /\ Includes(fnOut, "Project Name: Mood Lamp")
    /\ fnOut # StructuredBlock(RecordOf(fnIn.kb, "Mood Lamp"))

\* C27 (as stated): for a project that has a structured record in the KB the
\* block is rendered from that record, even if some page also matches the
\* project name.
C27_RecordBeforePages ==
    (fnIn.fn = "extractProjectBlock" /\ HasRecord(fnIn.kb, fnIn.projectName))
    => fnOut = StructuredBlock(RecordOf(fnIn.kb, fnIn.projectName))

(***************************************************************************)
(* The image endpoint, under SpecImage.                                    *)
(***************************************************************************)
\* C30: whenever the prompt-enhancer step fails in any way (a non-success
\* response, an empty output, a network error or the abort of the 45 s
\* timeout), the handler still issues the image-generation call, with the
\* user's own prompt as the final prompt.
C30_EnhancerFailureFallsBack ==
    img.enhancer \in {"rejected", "aborted", "not ok", "unreadable", "empty"}
    => /\ Len(img.calls) = 2
       /\ img.calls[2].to = "image"
       /\ img.calls[2].prompt = img.userPrompt

=============================================================================
